---- MODULE Spec2Model ----
(***************************************************************************)
(* Model of MCPClient (tools/mcp_smoke_test.py): a JSON-RPC client that     *)
(* talks to a child process over its stdin / stdout pipes.                  *)
(*                                                                          *)
(* The caller's thread is modelled by its position (pc) inside request and  *)
(* _read_message; the child process and the clock are the environment.      *)
(* Time is counted in units of 0.1 s.  Steps of the client that do not      *)
(* wait (everything except select and a blocked readline) take no time.     *)
(***************************************************************************)
EXTENDS Integers, Sequences, FiniteSets, TLC

\* ---------------------------------------------------------------- bounds
MaxCalls == 2        \* requests issued by the caller
MaxLines == 2        \* lines (or line fragments) written by the child
MaxOps == 2          \* notify, initialize, call_tool and stop calls
MaxTime  == 6        \* the clock stops here

\* ------------------------------------------------------ program constants
Poll == 2            \* select timeout cap: 0.2 s
FirstId == 1         \* self._next_id = 1

\* ------------------------------------------------------------ vocabulary
NoId      == 0       \* a message without an "id" member (msg.get("id") is None)
NoTimeout == 0       \* the timeout argument left at None
NoCode    == -1      \* Popen.poll() returning None: the child has not exited

Min(a, b) == IF a <= b THEN a ELSE b

MsgIds == 1 .. MaxCalls

\* The text of one line on the child's stdout, by what json.loads makes of it.
\*   shape: "blank"   only whitespace
\*          "nonjson" json.loads raises JSONDecodeError
\*          "dict"    a JSON object
\*          "list"    a JSON array or string (a container that is no dict)
\*          "scalar"  a JSON number, boolean or null
\*   id, body: the "id" member and which of result / error / method a dict has
Line(shape, id, body) == [shape |-> shape, id |-> id, body |-> body]

NoLine == Line("none", NoId, "none")

\* readline returning the empty string: end-of-file
EofLine == Line("eof", NoId, "none")

Response(i)  == Line("dict", i, "result")
ErrorResp(i) == Line("dict", i, "error")
ServerReq(i) == Line("dict", i, "method")
Notification == Line("dict", NoId, "method")
BlankLine    == Line("blank", NoId, "none")
NonJsonLine  == Line("nonjson", NoId, "none")
ListLine     == Line("list", NoId, "none")
ScalarLine   == Line("scalar", NoId, "none")

Lines ==
  {BlankLine, NonJsonLine, ListLine, ScalarLine, Notification}
    \cup {Response(i) : i \in MsgIds}

ExitCodes == {1}
Timeouts == {NoTimeout, 2}
RequestTimeouts == {3}

\* A line of the child's stderr as readline returns it: its number in the
\* order of writing, and whether it ends with a newline.
ErrLine(n, nl) == [n |-> n, nl |-> nl]
NoErrLine == ErrLine(0, FALSE)

VARIABLES
  verbose,          \* self.verbose
  request_timeout,  \* self.request_timeout
  next_id,          \* self._next_id
  pc,               \* where the caller's thread is
  request_id,       \* request: request_id
  started,          \* request: started
  limit,            \* request: limit
  deadline,         \* _read_message: deadline
  sel_until,        \* when the pending select call gives up
  line,             \* _read_message: line, as last returned by readline
  msg,              \* request: msg, as last returned by _read_message
  seen,             \* history: the ids of the messages this call discarded
  sent,             \* everything written to the child's stdin, in order
  pipe,             \* complete lines in the stdout pipe, not yet read
  pfrag,            \* the pipe ends with bytes of an unfinished line
  rbuf,             \* complete lines held in the client's stdout reader
  rfrag,            \* the reader holds bytes of an unfinished line
  last_read,        \* history: which call last read the pipe, and when
  stdout_closed,    \* the child's end of stdout is closed
  returncode,       \* what Popen.poll() returns
  written,          \* number of writes the child has made
  now,              \* time.monotonic()
  calls,            \* history: how each request call ended
  api,              \* history: how each notify, initialize, call_tool and
                    \* stop call ended
  signals,          \* the signals the client has sent to the child, in order
  wait_until,       \* stop: when the pending process.wait call gives up
  closed,           \* the streams of the child that the client has closed
  err_written,      \* number of lines the child has written to stderr
  err_frag,         \* the last of them has no newline yet
  err_closed,       \* the child's end of stderr is closed
  err_read,         \* number of lines readline has returned to the drain thread
  drain_pc,         \* where the drain thread is
  drain_line,       \* _drain_stderr: line
  lock,             \* self._stderr_lock: who holds it
  stderr_lines,     \* self._stderr_lines
  appended,         \* history: number of appends to self._stderr_lines
  tail_pc,          \* where the caller is in stderr_tail
  tail_iter,        \* stderr_tail: the deque as join began to iterate it
  tail_result,      \* stderr_tail: the value being returned
  tail_count,       \* history: number of stderr_tail calls
  parsed,           \* history: how each parse_png_size_from_image_content
                    \* and parse_json_text call ended
  harness,          \* which main function runs: "smoke", "phone" or "none"
  args,             \* main: args (the options that steer the control flow)
  main_pc,          \* main: body, except, finally, ..., done
  ip,               \* main: the statement of the try body that is next
  results,          \* main: results
  project_running,  \* main: project_running
  exc,              \* main: the exception in flight
  exit_code,        \* main: the value returned
  ops,              \* history: the calls main made on the client, a run of
                    \* calls of the try body taken as one entry
  attempt,          \* the running loop: attempt (polls, in the startup loop)
  last_error,       \* the running loop: last_error / screenshot_error
  shot,             \* smoke main: screenshot_content
  remaining_ms,     \* smoke main, phase 4: remaining_ms
  segment_count,    \* smoke main, phase 4: segment_count
  segments,         \* history: current_ms of each phase-4 segment
  editor_proc,      \* run_difficulty: editor_proc (none, running, stopped)
  log_file,         \* the log file opened by _start_editor (none, open, closed)
  client,           \* run_difficulty: client (none, live, stopped)
  outcome,          \* run_difficulty: the DifficultyResult returned
  scene_stopped_early, \* run_difficulty: scene_stopped_early
  snapshots,        \* run_difficulty: len(snapshots)
  stall_snapshots,  \* _estimate_stall_seconds: the argument snapshots
  sample_seconds,   \* _estimate_stall_seconds: the argument sample_seconds
  stall             \* _estimate_stall_seconds: <<what it returned>>

vars == <<verbose, request_timeout, next_id, pc, request_id, started, limit,
          deadline, sel_until, line, msg, seen, sent, pipe, pfrag, rbuf, rfrag,
          last_read,
          stdout_closed, returncode, written, now, calls,
          api, signals, wait_until, closed,
          err_written, err_frag, err_closed, err_read, drain_pc, drain_line,
          lock, stderr_lines, appended, tail_pc, tail_iter, tail_result,
          tail_count, parsed, harness, args, main_pc, ip, results,
          project_running, exc, exit_code, ops, attempt, last_error, shot,
          remaining_ms, segment_count, segments, editor_proc, log_file,
          client, outcome, scene_stopped_early, snapshots,
          stall_snapshots, sample_seconds, stall>>

client_fields == <<verbose, request_timeout>>
frame == <<request_id, started, limit, deadline, sel_until, line, msg, seen>>
stream == <<pipe, pfrag, rbuf, rfrag, last_read>>
child == <<stdout_closed, returncode, written>>
handles == <<closed>>
diag == <<err_written, err_frag, err_closed>>
drain == <<err_read, drain_pc, drain_line, stderr_lines, appended>>
tail == <<tail_pc, tail_iter, tail_result, tail_count>>
extract == <<parsed>>
config == <<harness, args>>
flow == <<main_pc, ip, results, project_running, exc, exit_code>>
loops == <<attempt, last_error, shot, remaining_ms, segment_count, segments>>
orch == <<config, flow, ops, loops>>
balance == <<editor_proc, log_file, client, outcome, scene_stopped_early,
            snapshots>>
estimate == <<stall_snapshots, sample_seconds, stall>>
side == <<handles, diag, drain, lock, tail, extract, orch, balance, estimate>>
session == <<api, signals, wait_until, side>>

Init ==
  /\ verbose \in BOOLEAN
  /\ request_timeout \in RequestTimeouts
  /\ next_id = FirstId
  /\ pc = "idle"
  /\ request_id = NoId
  /\ started = 0
  /\ limit = 0
  /\ deadline = 0
  /\ sel_until = 0
  /\ line = NoLine
  /\ msg = NoLine
  /\ seen = {}
  /\ sent = <<>>
  /\ pipe = <<>>
  /\ pfrag = FALSE
  /\ rbuf = <<>>
  /\ rfrag = FALSE
  /\ last_read = [by |-> NoId, at |-> 0]
  /\ stdout_closed = FALSE
  /\ returncode = NoCode
  /\ written = 0
  /\ now = 0
  /\ calls = <<>>
  /\ api = <<>>
  /\ signals = <<>>
  /\ wait_until = 0
  /\ closed = {}
  /\ err_written = 0
  /\ err_frag = FALSE
  /\ err_closed = FALSE
  /\ err_read = 0
  /\ drain_pc = "readline"
  /\ drain_line = NoErrLine
  /\ lock = "free"
  /\ stderr_lines = <<>>
  /\ appended = 0
  /\ tail_pc = "idle"
  /\ tail_iter = <<>>
  /\ tail_result = <<>>
  /\ tail_count = 0
  /\ parsed = <<>>
  /\ harness = "none"
  /\ args = [keep_running |-> FALSE, phase4_sim_seconds |-> [num |-> 0, den |-> 1]]
  /\ main_pc = "done"
  /\ ip = 1
  /\ results = <<>>
  /\ project_running = FALSE
  /\ exc = [type |-> "none", head |-> "", text |-> ""]
  /\ exit_code = -1
  /\ ops = <<>>
  /\ attempt = 0
  /\ last_error = [type |-> "none", head |-> "", text |-> ""]
  /\ shot = "empty"
  /\ remaining_ms = 0
  /\ segment_count = 0
  /\ segments = <<>>
  /\ editor_proc = "none"
  /\ log_file = "none"
  /\ client = "none"
  /\ outcome = [ok |-> FALSE, reason |-> "none"]
  /\ scene_stopped_early = FALSE
  /\ snapshots = 0
  /\ stall_snapshots = <<>>
  /\ sample_seconds = 0
  /\ stall = <<>>


\* ------------------------------------------- pieces of request's code

\* (mutant) the id counter is not advanced
AllocNextId_Stuck(n) == n

\* self._next_id += 1
AllocNextId(n) == n + 1

\* limit = timeout if timeout is not None else self.request_timeout
LimitOf(timeout) == IF timeout # NoTimeout THEN timeout ELSE request_timeout

\* remaining = limit - (time.monotonic() - started)
Remaining(lim, start, t) == lim - (t - start)

\* msg.get("id") raises AttributeError unless msg is a dict
GetIdRaises(m) == m.shape # "dict"

\* (mutant) any message that carries an id is taken as the answer
IdMatches_Any(m, rid) == m.id # NoId

\* (mutant) <= written for ==: answers to earlier ids are taken too
IdMatches_AtMost(m, rid) == m.id # NoId /\ m.id <= rid

\* msg.get("id") == request_id
IdMatches(m, rid) == m.id = rid

\* -------------------------------------- pieces of _read_message's code

\* deadline = time.monotonic() + timeout
ReadDeadline(t, timeout) == t + timeout

\* the timeout handed to select: min(0.2, remaining)
SelectWait(remaining) == Min(Poll, remaining)

\* select reports the descriptor readable: bytes in the pipe, or end-of-file.
\* It knows nothing of what the reader object already holds.
FdReady == pipe # <<>> \/ pfrag \/ stdout_closed

\* line = line.strip(); if not line: continue
StripsToEmpty(l) == l.shape = "blank"

\* (mutant) the JSONDecodeError handler is missing: the text goes on as a message
JsonLoadsFails_Never(l) == FALSE

\* json.loads(line) raises JSONDecodeError
JsonLoadsFails(l) == l.shape = "nonjson"

\* "id" not in message raises TypeError for a number, boolean or null;
\* it is evaluated only when self.verbose
VerbosePrintRaises(m) == verbose /\ m.shape = "scalar"

\* _send: writing to the stdin pipe of a child that is gone raises
\* BrokenPipeError
StdinBroken == returncode # NoCode

\* ------------------------------------------------------ call outcomes

\* The exceptions request can end with, by the statement that raises them.
TimedOutRequest == "TimedOutRequest"   \* MCPError, request
TimedOutRead    == "TimedOutRead"      \* MCPError, _read_message
ServerExited    == "ServerExited"      \* MCPError, _read_message
BrokenPipe      == "BrokenPipeError"   \* OSError, _send
TransportUnavailable == "MCP stdin is unavailable"   \* MCPError, _send
AttrError       == "AttributeError"    \* request: msg.get on a non-dict
TypeErr         == "TypeError"         \* _read_message: "id" not in message
Returned        == "none"              \* request returned msg

CallRecord(id, err, ret, code, skipped) ==
  [id |-> id, err |-> err, ret |-> ret, code |-> code, skipped |-> skipped]

\* request ends: by return (err = Returned, ret = msg) or by an exception.
\* The frame's locals die with it; line is kept as the last text read.
Finish(id, err, ret, code) ==
  /\ calls' = Append(calls, CallRecord(id, err, ret, code, seen))
  /\ pc' = "idle"
  /\ request_id' = NoId
  /\ started' = 0
  /\ limit' = 0
  /\ deadline' = 0
  /\ sel_until' = 0
  /\ msg' = NoLine
  /\ seen' = {}

\* ------------------------------------------------------------ request

\* request, up to the first evaluation of the loop: allocate the id, _send.
Request(timeout) ==
  /\ pc = "idle"
  /\ next_id < FirstId + MaxCalls
  /\ next_id' = AllocNextId(next_id)
  /\ IF StdinBroken
       THEN /\ Finish(next_id, BrokenPipe, NoLine, NoCode)
            /\ UNCHANGED sent
       ELSE /\ sent' = Append(sent, [id |-> next_id, method |-> "request"])
            /\ request_id' = next_id
            /\ started' = now
            /\ limit' = LimitOf(timeout)
            /\ pc' = "req_loop"
            /\ UNCHANGED <<deadline, sel_until, msg, seen, calls>>
  /\ line' = NoLine
  /\ UNCHANGED <<client_fields, session, stream, child, now>>

\* (mutant) a timed-out request is followed by a cancellation message
RequestLoop_Cancel ==
  /\ pc = "req_loop"
  /\ LET remaining == Remaining(limit, started, now) IN
       IF remaining <= 0
         THEN /\ Finish(request_id, TimedOutRequest, NoLine, NoCode)
              /\ sent' = Append(sent, [id |-> request_id, method |-> "cancel"])
         ELSE /\ deadline' = ReadDeadline(now, remaining)
              /\ pc' = "rm_loop"
              /\ UNCHANGED <<request_id, started, limit, sel_until, msg, seen,
                             calls, sent>>
  /\ UNCHANGED <<client_fields, session, next_id, line, stream, child, now>>

\* (mutant) a timed-out request is sent again under a new id, and the call
\* goes on waiting
RequestLoop_Resend ==
  /\ pc = "req_loop"
  /\ LET remaining == Remaining(limit, started, now) IN
       IF remaining <= 0
         THEN IF next_id < FirstId + MaxCalls
                THEN /\ sent' = Append(sent, [id |-> next_id, method |-> "request"])
                     /\ request_id' = next_id
                     /\ next_id' = next_id + 1
                     /\ started' = now
                     /\ UNCHANGED <<pc, limit, deadline, sel_until, msg, seen,
                                    calls>>
                ELSE /\ Finish(request_id, TimedOutRequest, NoLine, NoCode)
                     /\ UNCHANGED <<sent, next_id>>
         ELSE /\ deadline' = ReadDeadline(now, remaining)
              /\ pc' = "rm_loop"
              /\ UNCHANGED <<request_id, started, limit, sel_until, msg, seen,
                             calls, sent, next_id>>
  /\ UNCHANGED <<client_fields, session, line, stream, child, now>>

\* request's loop head: compute remaining, raise or call _read_message.
RequestLoop ==
  /\ pc = "req_loop"
  /\ LET remaining == Remaining(limit, started, now) IN
       IF remaining <= 0
         THEN Finish(request_id, TimedOutRequest, NoLine, NoCode)
         ELSE /\ deadline' = ReadDeadline(now, remaining)
              /\ pc' = "rm_loop"
              /\ UNCHANGED <<request_id, started, limit, sel_until, msg, seen, calls>>
  /\ UNCHANGED <<client_fields, session, next_id, line, sent, stream, child, now>>

\* _read_message's loop head: compute remaining, raise or enter select.
ReadLoop ==
  /\ pc = "rm_loop"
  /\ LET remaining == deadline - now IN
       IF remaining <= 0
         THEN Finish(request_id, TimedOutRead, NoLine, NoCode)
         ELSE /\ sel_until' = now + SelectWait(remaining)
              /\ pc' = "select"
              /\ UNCHANGED <<request_id, started, limit, deadline, msg, seen, calls>>
  /\ UNCHANGED <<client_fields, session, next_id, line, sent, stream, child, now>>

\* select returns the descriptor as readable.
SelectReady ==
  /\ pc = "select"
  /\ FdReady
  /\ pc' = "readline"
  /\ UNCHANGED <<client_fields, session, next_id, request_id, started, limit, deadline,
                 sel_until, line, msg, seen, sent, stream, child, now, calls>>

\* select returns empty after its timeout: continue.
SelectTimeout ==
  /\ pc = "select"
  /\ ~FdReady
  /\ now >= sel_until
  /\ pc' = "rm_loop"
  /\ UNCHANGED <<client_fields, session, next_id, request_id, started, limit, deadline,
                 sel_until, line, msg, seen, sent, stream, child, now, calls>>


\* (mutant) a message with another id ends the call with an error
Discard_Raise(l) ==
  Finish(request_id, "UnexpectedResponseId", NoLine, NoCode)

\* request's loop when msg.get("id") != request_id: msg is dropped and the
\* loop goes round again.
Discard(l) ==
  /\ msg' = l
  /\ seen' = seen \cup {l.id}
  /\ pc' = "req_loop"
  /\ UNCHANGED <<request_id, started, limit, deadline, sel_until, calls>>

\* ------------------------------------------------------- _read_message

\* What follows readline returning the text l (not the empty string):
\* strip, json.loads, the verbose print, return to request, msg.get("id").
HandleLine(l) ==
  /\ line' = l
  /\ IF StripsToEmpty(l) \/ JsonLoadsFails(l)
       THEN /\ pc' = "rm_loop"
            /\ UNCHANGED <<request_id, started, limit, deadline, sel_until,
                           msg, seen, calls>>
       ELSE IF VerbosePrintRaises(l)
         THEN Finish(request_id, TypeErr, NoLine, NoCode)
         ELSE IF GetIdRaises(l)
           THEN Finish(request_id, AttrError, NoLine, NoCode)
           ELSE IF IdMatches(l, request_id)
             THEN Finish(request_id, Returned, l, NoCode)
             ELSE Discard(l)

\* readline is served from the reader's own buffer: no read of the pipe.
ReadBuffered ==
  /\ pc = "readline"
  /\ rbuf # <<>>
  /\ rbuf' = Tail(rbuf)
  /\ HandleLine(Head(rbuf))
  /\ UNCHANGED <<client_fields, session, next_id, sent, pipe, pfrag, rfrag, last_read,
                 child, now>>

\* readline reads the pipe: one read takes all the bytes that are there.  The
\* first complete line is returned, the rest stays in the reader.
ReadChunk ==
  /\ pc = "readline"
  /\ rbuf = <<>>
  /\ pipe # <<>>
  /\ rbuf' = Tail(pipe)
  /\ rfrag' = pfrag
  /\ pipe' = <<>>
  /\ pfrag' = FALSE
  /\ last_read' = [by |-> request_id, at |-> now]
  /\ HandleLine(Head(pipe))
  /\ UNCHANGED <<client_fields, session, next_id, sent, child, now>>

\* readline reads the pipe and gets no newline: it keeps the bytes and blocks
\* in the next read.
ReadFragment ==
  /\ pc = "readline"
  /\ rbuf = <<>>
  /\ pipe = <<>>
  /\ pfrag
  /\ rfrag' = TRUE
  /\ pfrag' = FALSE
  /\ last_read' = [by |-> request_id, at |-> now]
  /\ UNCHANGED <<client_fields, session, next_id, pc, frame, sent, pipe, rbuf, child, now, calls>>

\* end-of-file with an unfinished line in the reader: readline returns those
\* bytes, whatever they are, as a line.
ReadFragmentAtEof ==
  /\ pc = "readline"
  /\ rbuf = <<>>
  /\ pipe = <<>>
  /\ ~pfrag
  /\ stdout_closed
  /\ rfrag
  /\ rfrag' = FALSE
  /\ \E l \in Lines : HandleLine(l)
  /\ UNCHANGED <<client_fields, session, next_id, sent, pipe, pfrag, rbuf, last_read,
                 child, now>>

\* end-of-file: readline returns "", code = self.process.poll(), raise.
ReadEof ==
  /\ pc = "readline"
  /\ rbuf = <<>>
  /\ pipe = <<>>
  /\ ~pfrag
  /\ stdout_closed
  /\ ~rfrag
  /\ line' = EofLine
  /\ Finish(request_id, ServerExited, NoLine, returncode)
  /\ UNCHANGED <<client_fields, session, next_id, sent, stream, child, now>>

\* readline is blocked in read: nothing buffered, nothing in the pipe, no EOF.
ReadBlocked ==
  /\ pc = "readline"
  /\ rbuf = <<>>
  /\ pipe = <<>>
  /\ ~pfrag
  /\ ~stdout_closed

\* -------------------------------------------------- the child process

ChildWrite(l) ==
  /\ returncode = NoCode
  /\ ~stdout_closed
  /\ written < MaxLines
  /\ pipe' = Append(pipe, l)
  /\ pfrag' = FALSE
  /\ written' = written + 1
  /\ UNCHANGED <<client_fields, session, next_id, pc, frame, sent, rbuf, rfrag,
                 last_read, stdout_closed, returncode, now, calls>>

\* The child writes bytes that end without a newline.
ChildWriteFragment ==
  /\ returncode = NoCode
  /\ ~stdout_closed
  /\ written < MaxLines
  /\ ~pfrag
  /\ pfrag' = TRUE
  /\ written' = written + 1
  /\ UNCHANGED <<client_fields, session, next_id, pc, frame, sent, pipe, rbuf, rfrag,
                 last_read, stdout_closed, returncode, now, calls>>

\* The child closes its stdout and keeps running.
ChildCloseStdout ==
  /\ returncode = NoCode
  /\ ~stdout_closed
  /\ stdout_closed' = TRUE
  /\ UNCHANGED <<client_fields, session, next_id, pc, frame, sent, stream, returncode,
                 written, now, calls>>

\* The child exits with code c: its descriptors are closed.
ChildExit(c) ==
  /\ returncode = NoCode
  /\ returncode' = c
  /\ stdout_closed' = TRUE
  /\ UNCHANGED <<client_fields, session, next_id, pc, frame, sent, stream, written,
                 now, calls>>

\* ------------------------------------------------------------- clock

\* Time passes while the caller waits in select or is blocked in readline.
\* (The clock is read only inside a call, and only differences of readings
\* are used, so the time spent between calls is left out.)
Tick ==
  /\ now < MaxTime
  /\ \/ pc = "select" /\ ~FdReady /\ now < sel_until
     \/ ReadBlocked
  /\ now' = now + 1
  /\ UNCHANGED <<client_fields, session, next_id, pc, frame, sent, stream, child, calls>>

Next ==
  \/ \E t \in Timeouts : Request(t)
  \/ RequestLoop
  \/ ReadLoop
  \/ SelectReady
  \/ SelectTimeout
  \/ ReadBuffered
  \/ ReadChunk
  \/ ReadFragment
  \/ ReadFragmentAtEof
  \/ ReadEof
  \/ \E l \in Lines : ChildWrite(l)
  \/ ChildWriteFragment
  \/ ChildCloseStdout
  \/ \E c \in ExitCodes : ChildExit(c)
  \/ Tick

Spec == Init /\ [][Next]_vars


\* ============================================================ notify
\* The same client, with notify among the caller's operations and a child
\* that answers with whole lines: responses, error responses, requests of
\* its own and notifications.

\* How a notify, initialize, call_tool or stop call ended.  ret is the
\* message request returned to it and result that message's result field,
\* content and text what call_tool made of it, sigs the signals the call
\* sent and waited the time it spent waiting.
ApiRecord(op, err, ret, result, content, text, sigs, waited) ==
  [op |-> op, err |-> err, ret |-> ret, result |-> result,
   content |-> content, text |-> text, sigs |-> sigs, waited |-> waited]

\* response.get("result", {}) of a message without a result field: the empty
\* dict, which has no isError and whose content reads as [].
NoResult == [isError |-> "absent", content |-> <<>>]

\* the signals recorded for the call in progress
LastApiSigs == api[Len(api)].sigs

NotifyMessage(method) == [id |-> NoId, method |-> method]

\* (mutant) notify takes a request id, as request does
NotifyNextId_Alloc(n) == AllocNextId(n)

\* notify leaves self._next_id alone
NotifyNextId(n) == n

\* notify: _send of a message without an id, and nothing else.
Notify ==
  /\ pc = "idle"
  /\ Len(api) < MaxOps
  /\ next_id' = NotifyNextId(next_id)
  /\ IF StdinBroken
       THEN /\ api' = Append(api, ApiRecord("notify", BrokenPipe, NoLine,
                                            NoResult, <<>>, <<>>, <<>>, 0))
            /\ UNCHANGED sent
       ELSE /\ api' = Append(api, ApiRecord("notify", Returned, NoLine,
                                            NoResult, <<>>, <<>>, <<>>, 0))
            /\ sent' = Append(sent, NotifyMessage("notification"))
  /\ UNCHANGED <<client_fields, side, signals, wait_until, pc, frame, stream, child,
                 now, calls>>

TrafficLines ==
  {Notification} \cup
  UNION {{Response(i), ErrorResp(i), ServerReq(i)} : i \in MsgIds}

InitTraffic == Init /\ ~verbose

NextTraffic ==
  \/ \E t \in Timeouts : Request(t)
  \/ Notify
  \/ RequestLoop
  \/ ReadLoop
  \/ SelectReady
  \/ SelectTimeout
  \/ ReadBuffered
  \/ ReadChunk
  \/ ReadEof
  \/ \E l \in TrafficLines : ChildWrite(l)
  \/ \E c \in ExitCodes : ChildExit(c)
  \/ Tick

SpecTraffic == InitTraffic /\ [][NextTraffic]_vars


\* ============================================== initialize, call_tool
\* initialize and call_tool are straight-line code around one request call.
\* Here request is taken by what it hands back: the message carrying the
\* call's id, or one of its exceptions.  The clock is not advanced.

InitializeFloor == 450     \* max(45.0, ...), in tenths of a second

Max(a, b) == IF a >= b THEN a ELSE b

\* (mutant) the configured timeout is used as it is
InitializeTimeout_Configured(rt) == rt

\* timeout=max(45.0, self.request_timeout)
InitializeTimeout(rt) == Max(InitializeFloor, rt)

SessionTimeouts == {3, InitializeFloor, 600}

\* (mutant) the error field is not looked at
HasError_Never(m) == FALSE

\* "error" in response
HasError(m) == m.body = "error"

InitializeFailed == "initialize failed"      \* MCPError, initialize
ToolCallFailed == "tools/call failed"        \* MCPError, call_tool
ToolReturnedError == "Tool returned error"   \* MCPError, call_tool

\* content parts: {"type": "text", "text": t} and {"type": "image", ...}
TextPart(t) == [type |-> "text", text |-> t]
ImagePart == [type |-> "image", text |-> ""]
Parts == {TextPart("a"), TextPart("b"), TextPart(""), ImagePart}
MaxParts == 2
Contents == UNION {[1 .. n -> Parts] : n \in 0 .. MaxParts}

\* the result field of a tools/call response
ToolResults == [isError : {"absent", "false", "true"}, content : Contents]

\* result.get("isError", False), as the condition of the if
IsErrorSet(res) == res.isError = "true"

\* (mutant) empty texts are kept
RECURSIVE TextFromContent_KeepEmpty(_)
TextFromContent_KeepEmpty(content) ==
  IF content = <<>> THEN <<>>
  ELSE LET part == Head(content)
       IN  (IF part.type = "text" THEN <<part.text>> ELSE <<>>)
             \o TextFromContent_KeepEmpty(Tail(content))

\* text_from_content: the texts of the parts of type text, empty ones
\* dropped, joined by "\n"; the joined text is kept as the sequence of its
\* pieces.
RECURSIVE TextFromContent(_)
TextFromContent(content) ==
  IF content = <<>> THEN <<>>
  ELSE LET part == Head(content)
           t == IF part.type = "text" THEN part.text ELSE ""
       IN  (IF t # "" THEN <<t>> ELSE <<>>) \o TextFromContent(Tail(content))

\* What request(...) hands back for the call with id rid.
RequestEnds(rid) ==
  {[err |-> Returned, ret |-> m] :
     m \in {Response(rid), ErrorResp(rid), ServerReq(rid)}} \cup
  {[err |-> e, ret |-> NoLine] :
     e \in {TimedOutRequest, TimedOutRead, ServerExited, AttrError}}

\* The situation in which request can end in the way r.
CanEnd(r) == r.err = ServerExited => stdout_closed

\* The wrapped request call, up to its _send: as Request, for the given
\* operation and method.
WrappedCall(op, method, timeout) ==
  /\ pc = "idle"
  /\ Len(api) < MaxOps
  /\ next_id < FirstId + MaxCalls
  /\ next_id' = AllocNextId(next_id)
  /\ IF StdinBroken
       THEN /\ calls' = Append(calls, CallRecord(next_id, BrokenPipe, NoLine,
                                                 NoCode, {}))
            /\ api' = Append(api, ApiRecord(op, BrokenPipe, NoLine, NoResult,
                                            <<>>, <<>>, <<>>, 0))
            /\ UNCHANGED <<sent, pc, request_id, started, limit>>
       ELSE /\ sent' = Append(sent, [id |-> next_id, method |-> method])
            /\ request_id' = next_id
            /\ started' = now
            /\ limit' = timeout
            /\ pc' = op
            /\ UNCHANGED <<calls, api>>
  /\ UNCHANGED <<client_fields, side, signals, wait_until, deadline, sel_until, line,
                 msg, seen, stream, child, now>>

\* The wrapped request call ends in the way r.
WrappedReturn(r) ==
  /\ CanEnd(r)
  /\ calls' = Append(calls, CallRecord(request_id, r.err, r.ret,
                                       IF r.err = ServerExited
                                         THEN returncode ELSE NoCode, {}))
  /\ pc' = "idle"
  /\ request_id' = NoId
  /\ started' = 0
  /\ limit' = 0

\* initialize, up to the request's _send.
InitializeCall ==
  WrappedCall("initialize", "initialize", InitializeTimeout(request_timeout))

\* initialize, from the end of its request call: the exception goes on to the
\* caller, an error response raises, anything else is followed by notify.
InitializeReturn(r) ==
  /\ pc = "initialize"
  /\ WrappedReturn(r)
  /\ IF r.err # Returned
       THEN /\ api' = Append(api, ApiRecord("initialize", r.err, NoLine,
                                            NoResult, <<>>, <<>>, <<>>, 0))
            /\ UNCHANGED sent
       ELSE IF HasError(r.ret)
       THEN /\ api' = Append(api, ApiRecord("initialize", InitializeFailed,
                                            r.ret, NoResult, <<>>, <<>>, <<>>,
                                            0))
            /\ UNCHANGED sent
       ELSE IF StdinBroken
       THEN /\ api' = Append(api, ApiRecord("initialize", BrokenPipe, r.ret,
                                            NoResult, <<>>, <<>>, <<>>, 0))
            /\ UNCHANGED sent
       ELSE /\ api' = Append(api, ApiRecord("initialize", Returned, r.ret,
                                            NoResult, <<>>, <<>>, <<>>, 0))
            /\ sent' = Append(sent, NotifyMessage("notifications/initialized"))
  /\ UNCHANGED <<client_fields, side, signals, wait_until, next_id, deadline,
                 sel_until, line, msg, seen, stream, child, now>>

\* call_tool, up to the request's _send.
CallToolCall(timeout) == WrappedCall("call_tool", "tools/call", LimitOf(timeout))

\* (mutant) isError is looked at before the error field
CallToolDecision_FlagFirst(m, res) ==
  IF IsErrorSet(res) THEN ToolReturnedError
  ELSE IF HasError(m) THEN ToolCallFailed
  ELSE Returned

\* call_tool's decision on the matched response m with result field res
CallToolDecision(m, res) ==
  IF HasError(m) THEN ToolCallFailed
  ELSE IF IsErrorSet(res) THEN ToolReturnedError
  ELSE Returned

\* The result fields a message can carry: a server request has none, a
\* response has one, an error response may have one.
ResultsOf(m) == IF m.body = "method" THEN {NoResult} ELSE ToolResults

\* call_tool, from the end of its request call.
CallToolReturn(r, res) ==
  /\ pc = "call_tool"
  /\ WrappedReturn(r)
  /\ IF r.err # Returned
       THEN /\ res = NoResult
            /\ api' = Append(api, ApiRecord("call_tool", r.err, NoLine,
                                            NoResult, <<>>, <<>>, <<>>, 0))
       ELSE /\ res \in ResultsOf(r.ret)
            /\ LET decision == CallToolDecision(r.ret, res) IN
                 api' = Append(api,
                   ApiRecord("call_tool", decision, r.ret, res,
                             IF decision = Returned THEN res.content ELSE <<>>,
                             IF decision = ToolReturnedError
                               THEN TextFromContent(res.content) ELSE <<>>,
                             <<>>, 0))
  /\ UNCHANGED <<client_fields, side, signals, wait_until, next_id, deadline,
                 sel_until, line, msg, seen, sent, stream, child, now>>

InitSession ==
  /\ verbose = FALSE
  /\ request_timeout \in SessionTimeouts
  /\ next_id = FirstId
  /\ pc = "idle"
  /\ request_id = NoId
  /\ started = 0
  /\ limit = 0
  /\ deadline = 0
  /\ sel_until = 0
  /\ line = NoLine
  /\ msg = NoLine
  /\ seen = {}
  /\ sent = <<>>
  /\ pipe = <<>>
  /\ pfrag = FALSE
  /\ rbuf = <<>>
  /\ rfrag = FALSE
  /\ last_read = [by |-> NoId, at |-> 0]
  /\ stdout_closed = FALSE
  /\ returncode = NoCode
  /\ written = 0
  /\ now = 0
  /\ calls = <<>>
  /\ api = <<>>
  /\ signals = <<>>
  /\ wait_until = 0
  /\ closed = {}
  /\ err_written = 0
  /\ err_frag = FALSE
  /\ err_closed = FALSE
  /\ err_read = 0
  /\ drain_pc = "readline"
  /\ drain_line = NoErrLine
  /\ lock = "free"
  /\ stderr_lines = <<>>
  /\ appended = 0
  /\ tail_pc = "idle"
  /\ tail_iter = <<>>
  /\ tail_result = <<>>
  /\ tail_count = 0
  /\ parsed = <<>>
  /\ harness = "none"
  /\ args = [keep_running |-> FALSE, phase4_sim_seconds |-> [num |-> 0, den |-> 1]]
  /\ main_pc = "done"
  /\ ip = 1
  /\ results = <<>>
  /\ project_running = FALSE
  /\ exc = [type |-> "none", head |-> "", text |-> ""]
  /\ exit_code = -1
  /\ ops = <<>>
  /\ attempt = 0
  /\ last_error = [type |-> "none", head |-> "", text |-> ""]
  /\ shot = "empty"
  /\ remaining_ms = 0
  /\ segment_count = 0
  /\ segments = <<>>
  /\ editor_proc = "none"
  /\ log_file = "none"
  /\ client = "none"
  /\ outcome = [ok |-> FALSE, reason |-> "none"]
  /\ scene_stopped_early = FALSE
  /\ snapshots = 0
  /\ stall_snapshots = <<>>
  /\ sample_seconds = 0
  /\ stall = <<>>

NextSession ==
  \/ InitializeCall
  \/ \E r \in RequestEnds(request_id) : InitializeReturn(r)
  \/ \E t \in Timeouts : CallToolCall(t)
  \/ \E r \in RequestEnds(request_id) : \E res \in ToolResults :
       CallToolReturn(r, res)
  \/ \E c \in ExitCodes : ChildExit(c)

SpecSession == InitSession /\ [][NextSession]_vars


\* ============================================================== stop
\* stop, statement by statement, against a child that may exit on its own,
\* may or may not exit on SIGTERM, and dies some time after SIGKILL.

Grace == 50                \* self.process.wait(timeout=5)

Running == "running"       \* the call has not ended yet

\* returncode of a child ended by the signal
SignalCode(sig) == IF sig = "TERM" THEN 0 - 15 ELSE 0 - 9

\* self.process.poll() is None
PollSaysRunning(code) == code = NoCode

\* The record of the stop call in progress, changed.
StopRecord(err, sigs, waited) ==
  [api EXCEPT ![Len(api)] =
     ApiRecord("stop", err, NoLine, NoResult, <<>>, <<>>, sigs, waited)]

\* Popen.send_signal: poll first, and signal only a child not known dead.
SendSignal(sig) ==
  IF returncode = NoCode
    THEN /\ signals' = Append(signals, sig)
         /\ api' = StopRecord(Running, Append(LastApiSigs, sig), 0)
    ELSE UNCHANGED <<signals, api>>

\* stop: if self.process.poll() is None, else return.
StopBegin ==
  /\ pc = "idle"
  /\ Len(api) < MaxOps
  /\ IF PollSaysRunning(returncode)
       THEN /\ api' = Append(api, ApiRecord("stop", Running, NoLine, NoResult,
                                            <<>>, <<>>, <<>>, 0))
            /\ pc' = "stop_terminate"
       ELSE /\ api' = Append(api, ApiRecord("stop", Returned, NoLine, NoResult,
                                            <<>>, <<>>, <<>>, 0))
            /\ pc' = "idle"
  /\ UNCHANGED <<client_fields, side, signals, wait_until, next_id, frame, sent,
                 stream, child, now, calls>>

\* self.process.terminate(), and the start of self.process.wait(timeout=5)
StopTerminate ==
  /\ pc = "stop_terminate"
  /\ SendSignal("TERM")
  /\ wait_until' = now + Grace
  /\ pc' = "stop_wait"
  /\ UNCHANGED <<client_fields, side, next_id, frame, sent, stream, child, now, calls>>

\* wait finds the child exited and returns: stop returns.
WaitReturns ==
  /\ pc = "stop_wait"
  /\ returncode # NoCode
  /\ api' = StopRecord(Returned, LastApiSigs, now - (wait_until - Grace))
  /\ pc' = "idle"
  /\ UNCHANGED <<client_fields, side, signals, wait_until, next_id, frame, sent,
                 stream, child, now, calls>>

\* (mutant) wait gives up at once
WaitTimeout_Impatient ==
  /\ pc = "stop_wait"
  /\ returncode = NoCode
  /\ pc' = "stop_kill"
  /\ UNCHANGED <<client_fields, session, next_id, frame, sent, stream, child,
                 now, calls>>

\* wait finds the child running at its end time: TimeoutExpired.
WaitTimeout ==
  /\ pc = "stop_wait"
  /\ returncode = NoCode
  /\ now >= wait_until
  /\ pc' = "stop_kill"
  /\ UNCHANGED <<client_fields, session, next_id, frame, sent, stream, child,
                 now, calls>>

\* except subprocess.TimeoutExpired: self.process.kill(); stop returns.
StopKill ==
  /\ pc = "stop_kill"
  /\ IF returncode = NoCode
       THEN /\ signals' = Append(signals, "KILL")
            /\ api' = StopRecord(Returned, Append(LastApiSigs, "KILL"),
                                 now - (wait_until - Grace))
       ELSE /\ api' = StopRecord(Returned, LastApiSigs,
                                 now - (wait_until - Grace))
            /\ UNCHANGED signals
  /\ pc' = "idle"
  /\ UNCHANGED <<client_fields, side, wait_until, next_id, frame, sent, stream,
                 child, now, calls>>

\* The child is ended by a signal it was sent: by SIGTERM if it does not
\* ignore it, by SIGKILL in any case, in both cases some time after.
ChildDiesOf(sig) ==
  /\ returncode = NoCode
  /\ \E i \in DOMAIN signals : signals[i] = sig
  /\ returncode' = SignalCode(sig)
  /\ stdout_closed' = TRUE
  /\ UNCHANGED <<client_fields, session, next_id, pc, frame, sent, stream,
                 written, now, calls>>

\* Time passes while the caller waits in process.wait.
TickStop ==
  /\ pc = "stop_wait"
  /\ returncode = NoCode
  /\ now < wait_until
  /\ now' = now + 1
  /\ UNCHANGED <<client_fields, session, next_id, pc, frame, sent, stream,
                 child, calls>>

InitStop == Init /\ ~verbose

NextStop ==
  \/ StopBegin
  \/ StopTerminate
  \/ WaitReturns
  \/ WaitTimeout
  \/ StopKill
  \/ \E c \in ExitCodes : ChildExit(c)
  \/ \E sig \in {"TERM", "KILL"} : ChildDiesOf(sig)
  \/ TickStop

SpecStop == InitStop /\ [][NextStop]_vars


\* ====================================================== stderr drain
\* The drain thread (_drain_stderr) and a caller of stderr_tail, around the
\* lock and the deque.  The child's stderr lines are numbered in the order
\* of writing.

Capacity == 200            \* deque(maxlen=200)
MaxErrLines == 203         \* lines the child writes to stderr
MaxPending == 1            \* lines the stderr pipe holds unread

\* (mutant) a full deque refuses the new line
DequeAppend_KeepOldest(q, x) == IF Len(q) < Capacity THEN Append(q, x) ELSE q

\* deque.append with maxlen: a full deque drops its oldest entry
DequeAppend(q, x) ==
  IF Len(q) < Capacity THEN Append(q, x) ELSE Append(Tail(q), x)

\* line.rstrip("\n")
Rstrip(l) == l.n

\* "\n".join(self._stderr_lines): the joined text is kept as the sequence of
\* its lines.
JoinLines(q) == q

\* The next line is complete in the pipe, or is the unfinished last line of
\* a closed stream: readline returns it.
ErrLineReady ==
  /\ err_read < err_written
  /\ err_read + 1 < err_written \/ ~err_frag \/ err_closed

\* (mutant) the closed stream is taken for end-of-file, lines left or not
DrainSeesEof_Closed == err_closed

\* readline returns "": nothing left to read and the stream closed
DrainSeesEof == err_read = err_written /\ err_closed

\* line = self.process.stderr.readline(); if line == "": return
DrainReadline ==
  /\ drain_pc = "readline"
  /\ IF DrainSeesEof
       THEN /\ drain_pc' = "done"
            /\ UNCHANGED <<err_read, drain_line>>
       ELSE /\ ErrLineReady
            /\ err_read' = err_read + 1
            /\ drain_line' = ErrLine(err_read + 1,
                                     ~(err_frag /\ err_read + 1 = err_written))
            /\ drain_pc' = "acquire"
  /\ UNCHANGED <<client_fields, api, signals, wait_until, handles, extract, orch, balance,
                 estimate, diag, lock,
                 tail, stderr_lines, appended, next_id, pc, frame, sent, stream,
                 child, now, calls>>

\* with self._stderr_lock: (enter)
DrainAcquire ==
  /\ drain_pc = "acquire"
  /\ lock = "free"
  /\ lock' = "drain"
  /\ drain_pc' = "append"
  /\ UNCHANGED <<client_fields, api, signals, wait_until, handles, extract, orch, balance,
                 estimate, diag, tail,
                 err_read, drain_line, stderr_lines, appended, next_id, pc,
                 frame, sent, stream, child, now, calls>>

\* self._stderr_lines.append(line.rstrip("\n"))
DrainAppend ==
  /\ drain_pc = "append"
  /\ stderr_lines' = DequeAppend(stderr_lines, Rstrip(drain_line))
  /\ appended' = appended + 1
  /\ drain_pc' = "release"
  /\ UNCHANGED <<client_fields, api, signals, wait_until, handles, extract, orch, balance,
                 estimate, diag, tail,
                 lock, err_read, drain_line, next_id, pc, frame, sent, stream,
                 child, now, calls>>

\* (mutant) the lock is kept over the next readline
DrainRelease_Keep ==
  /\ drain_pc = "release"
  /\ drain_pc' = "readline"
  /\ UNCHANGED <<client_fields, api, signals, wait_until, handles, extract, orch, balance,
                 estimate, diag, tail,
                 lock, err_read, drain_line, stderr_lines, appended, next_id,
                 pc, frame, sent, stream, child, now, calls>>

\* with self._stderr_lock: (leave); the verbose print; back to the loop head
DrainRelease ==
  /\ drain_pc = "release"
  /\ lock' = "free"
  /\ drain_pc' = "readline"
  /\ UNCHANGED <<client_fields, api, signals, wait_until, handles, extract, orch, balance,
                 estimate, diag, tail,
                 err_read, drain_line, stderr_lines, appended, next_id, pc,
                 frame, sent, stream, child, now, calls>>

\* stderr_tail is called.
TailCall ==
  /\ tail_pc = "idle"
  /\ tail_count < MaxOps
  /\ tail_count' = tail_count + 1
  /\ tail_pc' = "acquire"
  /\ tail_iter' = <<>>
  /\ tail_result' = <<>>
  /\ UNCHANGED <<client_fields, api, signals, wait_until, handles, extract, orch, balance,
                 estimate, diag, drain,
                 lock, next_id, pc, frame, sent, stream, child, now, calls>>

\* (mutant) stderr_tail reads the deque without taking the lock
TailAcquire_NoLock ==
  /\ tail_pc = "acquire"
  /\ tail_pc' = "join"
  /\ UNCHANGED <<client_fields, api, signals, wait_until, handles, extract, orch, balance,
                 estimate, diag, drain,
                 lock, tail_iter, tail_result, tail_count, next_id, pc, frame,
                 sent, stream, child, now, calls>>

\* with self._stderr_lock: (enter)
TailAcquire ==
  /\ tail_pc = "acquire"
  /\ lock = "free"
  /\ lock' = "caller"
  /\ tail_pc' = "join"
  /\ UNCHANGED <<client_fields, api, signals, wait_until, handles, extract, orch, balance,
                 estimate, diag, drain,
                 tail_iter, tail_result, tail_count, next_id, pc, frame, sent,
                 stream, child, now, calls>>

\* join starts to iterate the deque.
TailJoinBegin ==
  /\ tail_pc = "join"
  /\ tail_iter' = stderr_lines
  /\ tail_pc' = "joining"
  /\ UNCHANGED <<client_fields, api, signals, wait_until, handles, extract, orch, balance,
                 estimate, diag, drain,
                 lock, tail_result, tail_count, next_id, pc, frame, sent, stream,
                 child, now, calls>>

TailMutated == "RuntimeError"   \* deque mutated during iteration

\* join comes to the end of the deque: the text, or RuntimeError if the
\* deque changed under the iteration.
TailJoinEnd ==
  /\ tail_pc = "joining"
  /\ IF stderr_lines = tail_iter
       THEN /\ tail_result' = JoinLines(tail_iter)
            /\ tail_pc' = "release"
       ELSE /\ tail_result' = <<>>
            /\ tail_pc' = TailMutated
  /\ UNCHANGED <<client_fields, api, signals, wait_until, handles, extract, orch, balance,
                 estimate, diag, drain,
                 lock, tail_iter, tail_count, next_id, pc, frame, sent, stream,
                 child, now, calls>>

\* with self._stderr_lock: (leave), and return; the caller drops the value
\* before it calls again.
TailRelease ==
  /\ tail_pc \in {"release", TailMutated}
  /\ lock' = IF lock = "caller" THEN "free" ELSE lock
  /\ tail_pc' = "idle"
  /\ tail_iter' = <<>>
  /\ tail_result' = <<>>
  /\ UNCHANGED <<client_fields, api, signals, wait_until, handles, extract, orch, balance,
                 estimate, diag, drain,
                 tail_count, next_id, pc, frame, sent, stream, child, now, calls>>

\* The child writes a whole line to stderr.
ChildErrWrite ==
  /\ ~err_closed
  /\ ~err_frag
  /\ err_written < MaxErrLines
  /\ err_written - err_read < MaxPending
  /\ err_written' = err_written + 1
  /\ UNCHANGED <<client_fields, api, signals, wait_until, handles, extract, orch, balance,
                 estimate, err_frag,
                 err_closed, drain, lock, tail, next_id, pc, frame, sent, stream,
                 child, now, calls>>

\* The child writes text without a newline to stderr.
ChildErrWriteFragment ==
  /\ ~err_closed
  /\ ~err_frag
  /\ err_written < MaxErrLines
  /\ err_written - err_read < MaxPending
  /\ err_written' = err_written + 1
  /\ err_frag' = TRUE
  /\ UNCHANGED <<client_fields, api, signals, wait_until, handles, extract, orch, balance,
                 estimate, err_closed,
                 drain, lock, tail, next_id, pc, frame, sent, stream, child, now,
                 calls>>

\* The child's stderr is closed (the child exits, or closes it).
ChildErrClose ==
  /\ ~err_closed
  /\ err_closed' = TRUE
  /\ UNCHANGED <<client_fields, api, signals, wait_until, handles, extract, orch, balance,
                 estimate, err_written,
                 err_frag, drain, lock, tail, next_id, pc, frame, sent, stream,
                 child, now, calls>>

InitDrain == Init /\ ~verbose

NextDrain ==
  \/ DrainReadline
  \/ DrainAcquire
  \/ DrainAppend
  \/ DrainRelease
  \/ TailCall
  \/ TailAcquire
  \/ TailJoinBegin
  \/ TailJoinEnd
  \/ TailRelease
  \/ ChildErrWrite
  \/ ChildErrWriteFragment
  \/ ChildErrClose

SpecDrain == InitDrain /\ [][NextDrain]_vars

\* The threads are scheduled: a thread that can take its next step takes it.
FairDrain ==
  /\ WF_vars(DrainReadline)
  /\ WF_vars(DrainAcquire)
  /\ WF_vars(DrainAppend)
  /\ WF_vars(DrainRelease)
  /\ WF_vars(TailAcquire)
  /\ WF_vars(TailJoinBegin)
  /\ WF_vars(TailJoinEnd)
  /\ WF_vars(TailRelease)

SpecDrainLive == SpecDrain /\ FairDrain


\* ================================================= content extraction
\* parse_png_size_from_image_content (tools/mcp_phone_playability.py) and
\* parse_json_text, applied to inputs drawn from small sets.  Bytes are
\* numbers 0 .. 255, byte strings are sequences of them.

MaxParses == 2             \* calls of the two functions

PNG_SIGNATURE == <<137, 80, 78, 71, 13, 10, 26, 10>>
NotPng == <<71, 73, 70, 56, 57, 97, 26, 10>>            \* another signature
ChunkHead == <<0, 0, 0, 13, 73, 72, 68, 82>>            \* length 13, "IHDR"
ChunkRest == <<8, 6, 0, 0, 0>>                          \* after the sizes

\* 640 x 360 and 65536 x 1 in big-endian 32-bit words
Sizes == {<<0, 0, 2, 128, 0, 0, 1, 104>>, <<0, 1, 0, 0, 0, 0, 0, 1>>}

\* bytes[:n]
Prefix(bytes, n) == SubSeq(bytes, 1, Min(n, Len(bytes)))

\* bytes[a:b] (a and b counted from 0, b excluded)
Slice(bytes, a, b) == SubSeq(bytes, a + 1, Min(b, Len(bytes)))

RawLens == {0, 7, 8, 23, 24, 29}

\* The byte strings the image data can decode to: files with and without the
\* signature, cut at various lengths.
Raws ==
  {Prefix(sig \o ChunkHead \o size \o ChunkRest, n) :
     sig \in {PNG_SIGNATURE, NotPng}, size \in Sizes, n \in RawLens}

\* image_part.get("data", ""): no data field, or base64 text.  The base64
\* text of the empty byte string is the empty text.
AbsentData == [kind |-> "absent", raw |-> <<>>]
B64Encode(raw) ==
  [kind |-> IF raw = <<>> THEN "empty" ELSE "b64", raw |-> raw]

\* base64.b64decode(data_b64)
B64Decode(data) == data.raw

\* not data_b64
DataMissing(data) == data.kind \in {"absent", "empty"}

PngPart(type, data) == [type |-> type, data |-> data]
PngParts ==
  {PngPart("text", AbsentData)} \cup
  {PngPart("image", d) : d \in {AbsentData} \cup {B64Encode(r) : r \in Raws}}
PngContents == UNION {[1 .. n -> PngParts] : n \in 0 .. MaxParts}

NoImageContent == "No image content returned"                  \* MCPError
MissingPayload == "Image content missing base64 payload"       \* MCPError
InvalidImageFormat == "Screenshot payload is not a valid PNG"  \* MCPError

\* struct.unpack(">I", b): a big-endian 32-bit word
Unpack32(b) == ((b[1] * 256 + b[2]) * 256 + b[3]) * 256 + b[4]

\* the indices of the parts of type image
ImageIndices(content) == {i \in DOMAIN content : content[i].type = "image"}

\* (mutant) the loop goes on to the last image part
PickImage_Last(content) ==
  CHOOSE i \in ImageIndices(content) : \A j \in ImageIndices(content) : j <= i

\* for part in content: if part.get("type") == "image": ... break
PickImage(content) ==
  CHOOSE i \in ImageIndices(content) : \A j \in ImageIndices(content) : i <= j

\* How one call ended: the exception or Returned, the value returned, and the
\* characters of the input quoted in the exception's message.
ParseRecord(fn, input, err, value, shown) ==
  [fn |-> fn, input |-> input, err |-> err, value |-> value, shown |-> shown]

\* parse_png_size_from_image_content(content): the exception, or the pair
ParsePngOutcome(content) ==
  IF ImageIndices(content) = {}
    THEN ParseRecord("png", content, NoImageContent, <<>>, <<>>)
  ELSE LET data_b64 == content[PickImage(content)].data IN
    IF DataMissing(data_b64)
      THEN ParseRecord("png", content, MissingPayload, <<>>, <<>>)
    ELSE LET raw == B64Decode(data_b64) IN
      IF Len(raw) < 24 \/ Prefix(raw, 8) # PNG_SIGNATURE
        THEN ParseRecord("png", content, InvalidImageFormat, <<>>, <<>>)
      ELSE ParseRecord("png", content, Returned,
                       <<Unpack32(Slice(raw, 16, 20)),
                         Unpack32(Slice(raw, 20, 24))>>, <<>>)

ParsePng(content) ==
  /\ Len(parsed) < MaxParses
  /\ parsed' = Append(parsed, ParsePngOutcome(content))
  /\ UNCHANGED <<client_fields, api, signals, wait_until, handles, diag, drain,
                 lock, tail, orch, balance, estimate,
                 next_id, pc, frame, sent, stream, child, now, calls>>

\* --- parse_json_text
\* A text is its characters (numbered, so that a part of it can be told from
\* another part) and what json.loads makes of it:
\*   "json"     a JSON document: parsed
\*   "constant" a document with NaN, Infinity or -Infinity in the place of a
\*              value: not JSON, but json.loads parses it
\*   "invalid"  anything else: json.loads raises JSONDecodeError
ShownChars == 160
JsonLens == {2, 159, 160, 161, 400}
ConstantLens == {3, 161}
InvalidLens == {0, 1, 159, 160, 161, 400}

Text(kind, n) == [kind |-> kind, chars |-> [i \in 1 .. n |-> i]]
Texts ==
  {Text("json", n) : n \in JsonLens} \cup
  {Text("constant", n) : n \in ConstantLens} \cup
  {Text("invalid", n) : n \in InvalidLens}

MalformedPayload == "Expected JSON text but got: "     \* MCPError

\* json.loads(text), when it returns
JsonValue(text) == [parsed_from |-> text.chars]

\* (mutant) the message quotes the whole text
Shown_All(text) == text.chars

\* text[:160]
Shown(text) == Prefix(text.chars, ShownChars)

\* json.loads(text) raises json.JSONDecodeError
LoadsRaisesDecodeError(text) == text.kind = "invalid"

\* parse_json_text(text)
ParseJsonOutcome(text) ==
  IF LoadsRaisesDecodeError(text)
    THEN ParseRecord("json", text, MalformedPayload, <<>>, Shown(text))
  ELSE ParseRecord("json", text, Returned, JsonValue(text), <<>>)

ParseJsonText(text) ==
  /\ Len(parsed) < MaxParses
  /\ parsed' = Append(parsed, ParseJsonOutcome(text))
  /\ UNCHANGED <<client_fields, api, signals, wait_until, handles, diag, drain,
                 lock, tail, orch, balance, estimate,
                 next_id, pc, frame, sent, stream, child, now, calls>>

InitContent == Init /\ ~verbose

NextContent ==
  \/ \E content \in PngContents : ParsePng(content)
  \/ \E text \in Texts : ParseJsonText(text)

SpecContent == InitContent /\ [][NextContent]_vars


\* ================================================= the main functions
\* main of tools/mcp_smoke_test.py and of tools/mcp_phone_playability.py: the
\* try body as a list of statements, the except clause, the finally clause and
\* the summary.  A call on the client is taken whole: it allocates an id and
\* returns or raises.  What a check finds in the data is a free choice.

MaxPolls == 2              \* rounds of the startup loop before its deadline

\* everything but next_id and the variables of main
core_but_estimate ==
  <<client_fields, api, signals, wait_until, handles, diag, drain, lock, tail,
    extract, pc, frame, sent, stream, child, now, calls>>
core == <<core_but_estimate, estimate>>
rest == <<core, balance>>

\* ---- exceptions
NoExc == [type |-> "none", head |-> "", text |-> ""]
MCPErr(head, text) == [type |-> "MCPError", head |-> head, text |-> text]
OtherErr(head) == [type |-> "Exception", head |-> head, text |-> ""]

\* what the server can say in an error
ScreenshotTimedOut == "Screenshot request timed out"
ServerTexts == {"Error: Screenshot request timed out", "Game is not running"}

\* "Screenshot request timed out" in str(exc)
MentionsScreenshotTimeout(e) == e.text = "Error: Screenshot request timed out"

\* The ways call_tool, initialize and list_tools fail.
CallFailures ==
  {MCPErr(TimedOutRequest, ""), MCPErr(ServerExited, ""),
   OtherErr(BrokenPipe), OtherErr(AttrError)} \cup
  {MCPErr(h, t) : h \in {ToolCallFailed, ToolReturnedError}, t \in ServerTexts}

\* The ways the code between two calls fails (parse_json_text, .get on a
\* value that is no dict, float() of a string, parse_png_size...).
EvalFailures == {MCPErr(MalformedPayload, ""), OtherErr(AttrError)}

\* The ways an attempt of a retry helper fails.
AttemptFailures ==
  {MCPErr(TimedOutRequest, ""), OtherErr(BrokenPipe),
   MCPErr(MalformedPayload, "")}

\* ---- statements
Call(name) == [k |-> "call", name |-> name, to |-> 0]
Eval(name) == [k |-> "eval", name |-> name, to |-> 0]
\* if <bad>: record(name, False, ...); raise MCPError(...)
\* record(name, True, ...)
Check(name) == [k |-> "check", name |-> name, to |-> 0]
\* if <bad>: record(name, False, ...); raise MCPError(...)
Guard(name) == [k |-> "guard", name |-> name, to |-> 0]
\* record(name, False, ...); raise MCPError(...)
Fail(name) == [k |-> "fail", name |-> name, to |-> 0]
\* record(name, True, ...)
Pass(name) == [k |-> "pass", name |-> name, to |-> 0]
\* project_running = True
SetRunning == [k |-> "set_running", name |-> "", to |-> 0]
\* break / continue: go on at statement to, or fall through
Branch(to) == [k |-> "branch", name |-> "", to |-> to]
\* the loops, each with actions of its own
StartupLoop == [k |-> "startup", name |-> "startup_to_gameplay", to |-> 0]
WarmUp == [k |-> "warmup", name |-> "startup_to_gameplay", to |-> 0]
Phase4Loop == [k |-> "phase4", name |-> "phase4_long_simulation_smoke", to |-> 0]
\* a helper that tries n times
Retry(name, n) == [k |-> "retry", name |-> name, to |-> n]

GetNewErrors == Call("get_log_messages")

\* smoke main: capture_scenario_screenshot(check_name)
CaptureScenarioScreenshot == <<Call("screenshot_game"), Eval("has_image")>>

\* smoke main: run_input_scenario(check_name, inputs)
RunInputScenario(name) ==
  <<Call("sequence")>> \o CaptureScenarioScreenshot \o
  <<GetNewErrors, Check(name)>>

\* smoke main, the try body
SmokeBody ==
  <<Call("initialize"), Call("tools/list"), Check("tooling_available"),
    Call("addon_status"), Eval("parse_json_text"), Check("addon_connection"),
    GetNewErrors, Call("run"), SetRunning,
    StartupLoop, WarmUp,
    GetNewErrors, Check("startup_to_gameplay"),
    Call("get_map"), Guard("camera_movement_smoke"),
    Call("sequence"), GetNewErrors, Check("camera_movement_smoke"),
    Call("sequence"), GetNewErrors, Check("selection_command_smoke"),
    Call("sequence"), GetNewErrors, Check("build_menu_and_production_smoke"),
    Check("phase2_action_bindings")>> \o
  RunInputScenario("phase2_touch_select_move_smoke") \o
  RunInputScenario("phase2_touch_villager_gather_smoke") \o
  RunInputScenario("phase2_hud_shortcuts_smoke") \o
  RunInputScenario("phase2_invalid_placement_feedback_smoke") \o
  <<Check("phase3_action_bindings")>> \o
  RunInputScenario("phase3_patrol_command_smoke") \o
  RunInputScenario("phase3_stance_attack_move_smoke") \o
  <<Phase4Loop>> \o CaptureScenarioScreenshot \o
  <<GetNewErrors, Check("phase4_long_simulation_smoke"),
    Call("get_performance"), Eval("parse_json_text"),
    Check("phase4_performance_guardrail"),
    Call("get_performance"), Eval("parse_json_text"),
    Check("performance_guardrail"),
    GetNewErrors, Check("runtime_errors")>>

\* phone main: capture_screenshot_size()
CaptureScreenshotSize == Retry("capture_screenshot_size", 4)

\* phone main: node_properties(path), then vec2_xy in camera_position()
NodeProperties == Retry("node_properties", 4)
CameraPosition == <<NodeProperties, Eval("vec2_xy")>>

\* phone main: run_touch_scenario(name, inputs)
RunTouchScenario(name) ==
  <<Call("sequence"), CaptureScreenshotSize, GetNewErrors, Check(name)>>

\* phone main: one round of the loop over minimap_inset_candidates, which
\* starts at statement at; next is the following round, out the statement
\* that a break leads to
MinimapRound(next, out) ==
  <<Branch(next)>> \o
  CameraPosition \o RunTouchScenario("touch_minimap_reposition_smoke") \o
  CameraPosition \o <<Branch(out)>> \o
  CameraPosition \o RunTouchScenario("minimap_mouse_fallback_smoke") \o
  CameraPosition \o <<Branch(out)>>

RoundLen == Len(MinimapRound(0, 0))
Candidates == 4            \* len(minimap_inset_candidates)

PhoneHead ==
  <<Call("initialize"), Call("tools/list"), Check("tooling_available"),
    Call("addon_status"), Eval("parse_json_text"), Check("addon_connection"),
    GetNewErrors, Call("run"), SetRunning,
    StartupLoop, CaptureScreenshotSize,
    GetNewErrors, Check("startup_to_gameplay")>> \o
  RunTouchScenario("touch_select_move_smoke") \o
  RunTouchScenario("touch_villager_gather_smoke") \o
  RunTouchScenario("touch_build_place_cancel_smoke")

\* where the minimap loop starts, and where it ends
LoopAt == Len(PhoneHead) + 1
LoopEnd == LoopAt + Candidates * RoundLen

RECURSIVE MinimapLoop(_)
MinimapLoop(j) ==
  IF j = Candidates THEN <<>>
  ELSE MinimapRound(LoopAt + (j + 1) * RoundLen, LoopEnd + 1) \o
       MinimapLoop(j + 1)

\* phone main, the try body
PhoneBody ==
  PhoneHead \o MinimapLoop(0) \o
  <<Fail("touch_minimap_camera_delta"), Pass("touch_minimap_camera_delta"),
    NodeProperties, Eval("hint_text"), Check("progression_hint_validation"),
    Call("get_performance"), Eval("parse_json_text"),
    Check("performance_guardrail"),
    GetNewErrors, Check("runtime_errors")>>

\* a retry helper called on its own, with args.attempts attempts
HelperBody == <<Retry(args.helper, args.attempts)>>

\* ---- the try body of run_difficulty (balance pass 127-261)
MaxSamples == 2
SnapshotAttempts == 5

\* editor_proc = self._start_editor(difficulty, log_path)
StartEditor == [k |-> "start_editor", name |-> "_start_editor", to |-> 0]
\* client = MCPClient(...)
NewClient == [k |-> "new_client", name |-> "MCPClient", to |-> 0]
\* if <bad>: raise MCPError(...)
RaiseIf(name) == [k |-> "raise_if", name |-> name, to |-> 0]
\* if not playing: scene_stopped_early = True; break
StoppedEarly(to) == [k |-> "stopped_early", name |-> "", to |-> to]
\* snapshots.append(...)
AppendSnapshot == [k |-> "append", name |-> "", to |-> 0]
\* if snapshots: ... else: ...
IfSnapshots(to) == [k |-> "if_snapshots", name |-> "", to |-> to]
\* try: <n calls at most> except Exception: pass
Quiet(name, n) == [k |-> "quiet", name |-> name, to |-> n]
\* return DifficultyResult(...)
Return == [k |-> "return", name |-> "", to |-> 0]

GetMainSnapshot == Retry("_get_main_snapshot_with_retry", SnapshotAttempts)

BalanceHead ==
  <<StartEditor, Eval("sleep"), NewClient, Call("initialize"),
    Call("list_tools"), RaiseIf("Missing required tools"),
    Call("addon_status"), Eval("parse_json_text"),
    RaiseIf("addon not connected"), GetNewErrors, Call("run"),
    [StartupLoop EXCEPT !.name = "scene did not enter playing state"]>>

\* one sampling round of the while True loop; out is where break goes
SampleRound(out) ==
  <<Branch(out), Call("get_state"), Eval("parse_json_text"),
    StoppedEarly(out), GetMainSnapshot, AppendSnapshot, GetNewErrors>>
SampleLen == Len(SampleRound(0))
SamplesAt == Len(BalanceHead) + 1
SamplesEnd == SamplesAt + MaxSamples * SampleLen

RECURSIVE SampleLoop(_)
SampleLoop(n) ==
  IF n = 0 THEN <<>> ELSE SampleLoop(n - 1) \o SampleRound(SamplesEnd)

BalanceTail ==
  <<IfSnapshots(SamplesEnd + 3), GetMainSnapshot, AppendSnapshot,
    Quiet("get_performance", 1), Quiet("screenshot_game", 1), GetNewErrors,
    Quiet("stop", 2), Eval("_estimate_stall_seconds"), Return>>

BalanceBody == BalanceHead \o SampleLoop(MaxSamples) \o BalanceTail

Body ==
  IF harness = "smoke" THEN SmokeBody
  ELSE IF harness = "phone" THEN PhoneBody
  ELSE IF harness = "balance" THEN BalanceBody
  ELSE HelperBody
Stmt == Body[ip]
At(kind) == main_pc = "body" /\ ip <= Len(Body) /\ Stmt.k = kind

\* ---- the pieces of main
CheckResult(name, passed) == [name |-> name, passed |-> passed]

\* record(name, passed, detail)
Record(name, passed) == results' = Append(results, CheckResult(name, passed))

\* a method of the client was called n times; each request takes the next id
Noted(history, kind) ==
  IF history # <<>> /\ history[Len(history)] = kind /\ kind = "scenario"
    THEN history
    ELSE Append(history, kind)
ClientCalls(kind, n) ==
  /\ ops' = Noted(ops, kind)
  /\ next_id' = next_id + n
ClientCall(name) == ClientCalls("scenario", 1)

\* an exception leaves the try body
Raise(e) ==
  /\ exc' = e
  /\ main_pc' = "except"
  /\ UNCHANGED <<ip, project_running, exit_code>>

GoOn ==
  /\ ip' = ip + 1
  /\ UNCHANGED <<main_pc, project_running, exc, exit_code>>

MainCallReturns ==
  /\ At("call")
  /\ ClientCall(Stmt.name)
  /\ GoOn
  /\ UNCHANGED <<rest, config, results, loops>>

MainCallRaises(e) ==
  /\ At("call")
  /\ ClientCall(Stmt.name)
  /\ Raise(e)
  /\ UNCHANGED <<rest, config, results, loops>>

MainEvalReturns ==
  /\ At("eval")
  /\ GoOn
  /\ UNCHANGED <<rest, config, results, ops, next_id, loops>>

MainEvalRaises(e) ==
  /\ At("eval")
  /\ Raise(e)
  /\ UNCHANGED <<rest, config, results, ops, next_id, loops>>

\* record(name, False, ...); raise MCPError(...)
MainCheckFails ==
  /\ At("check") \/ At("guard") \/ At("fail")
  /\ Record(Stmt.name, FALSE)
  /\ Raise(MCPErr(Stmt.name, ""))
  /\ UNCHANGED <<rest, config, ops, next_id, loops>>

\* the check finds nothing: record(name, True, ...) where there is one
MainCheckPasses ==
  /\ At("check") \/ At("guard") \/ At("pass")
  /\ IF Stmt.k = "guard" THEN results' = results ELSE Record(Stmt.name, TRUE)
  /\ GoOn
  /\ UNCHANGED <<rest, config, ops, next_id, loops>>

MainSetRunning ==
  /\ At("set_running")
  /\ project_running' = TRUE
  /\ ip' = ip + 1
  /\ UNCHANGED <<rest, config, main_pc, results, exc, exit_code, ops, next_id,
                 loops>>

MainBranch ==
  /\ At("branch")
  /\ ip' \in {ip + 1, Stmt.to}
  /\ UNCHANGED <<rest, config, main_pc, results, project_running, exc,
                 exit_code, ops, next_id, loops>>

\* ---- the startup loop (smoke 392-405, phone 213-221)
\* while time.monotonic() < startup_deadline: one more round; attempt counts
\* the rounds.  The state says playing: break.
StartupPlaying ==
  /\ At("startup")
  /\ attempt < MaxPolls
  /\ ClientCall("get_state")
  /\ attempt' = 0
  /\ GoOn
  /\ UNCHANGED <<rest, config, results, last_error, shot, remaining_ms,
                 segment_count, segments>>

\* the state says not playing: sleep, next round
StartupNotYet ==
  /\ At("startup")
  /\ attempt < MaxPolls
  /\ ClientCall("get_state")
  /\ attempt' = attempt + 1
  /\ UNCHANGED <<rest, config, flow, last_error, shot, remaining_ms,
                 segment_count, segments>>

\* get_state or parse_json_text raises
StartupRaises(e) ==
  /\ At("startup")
  /\ attempt < MaxPolls
  /\ ClientCall("get_state")
  /\ attempt' = 0
  /\ Raise(e)
  /\ UNCHANGED <<rest, config, results, last_error, shot, remaining_ms,
                 segment_count, segments>>

\* the deadline has passed and the game is not playing
StartupTimeout ==
  /\ At("startup")
  /\ attempt' = 0
  /\ IF harness = "balance" THEN results' = results
                            ELSE Record(Stmt.name, FALSE)
  /\ Raise(MCPErr("startup timeout", ""))
  /\ UNCHANGED <<rest, config, ops, next_id, last_error, shot, remaining_ms,
                 segment_count, segments>>

\* ---- the screenshot warm-up of smoke main (407-432)
WarmUpTries == 3
ShotKinds == {"empty", "noimage", "image"}

\* (mutant) every MCPError is retried
WarmUpRetries_AnyMCPError(e) == e.type = "MCPError"

\* except MCPError ...: if "Screenshot request timed out" not in ...: raise
WarmUpRetries(e) == e.type = "MCPError" /\ MentionsScreenshotTimeout(e)

\* call_tool returns: break; then the checks of lines 425-432
WarmUpReturns(content) ==
  /\ At("warmup")
  /\ attempt < WarmUpTries
  /\ ClientCall("screenshot_game")
  /\ shot' = content
  /\ attempt' = 0
  /\ IF content = "image"
       THEN GoOn /\ results' = results
       ELSE Record(Stmt.name, FALSE) /\ Raise(MCPErr("missing screenshot payload", ""))
  /\ UNCHANGED <<rest, config, last_error, remaining_ms, segment_count,
                 segments>>

\* call_tool raises the server's screenshot timeout: next attempt
WarmUpRetry(e) ==
  /\ At("warmup")
  /\ attempt < WarmUpTries
  /\ WarmUpRetries(e)
  /\ ClientCall("screenshot_game")
  /\ last_error' = e
  /\ attempt' = attempt + 1
  /\ UNCHANGED <<rest, config, flow, shot, remaining_ms, segment_count,
                 segments>>

\* call_tool raises anything else: it leaves the loop and the try body
WarmUpRaises(e) ==
  /\ At("warmup")
  /\ attempt < WarmUpTries
  /\ ~WarmUpRetries(e)
  /\ ClientCall("screenshot_game")
  /\ last_error' = IF e.type = "MCPError" THEN e ELSE last_error
  /\ attempt' = 0
  /\ Raise(e)
  /\ UNCHANGED <<rest, config, results, shot, remaining_ms, segment_count,
                 segments>>

\* range(3) is used up: screenshot_content is still empty
WarmUpExhausted ==
  /\ At("warmup")
  /\ attempt = WarmUpTries
  /\ attempt' = 0
  /\ Record(Stmt.name, FALSE)
  /\ Raise(MCPErr("missing screenshot payload", ""))
  /\ UNCHANGED <<rest, config, ops, next_id, last_error, shot, remaining_ms,
                 segment_count, segments>>

\* ---- phase 4 of smoke main, the long simulation (590-618)
Phase4SegmentMs == 22000
Phase4FloorSeconds == 30

\* --phase4-sim-seconds is a float: a fraction num / den here, and infinity
\* (which float() accepts) when den is 0
Seconds(num, den) == [num |-> num, den |-> den]
Infinite(x) == x.den = 0
Phase4Durations ==
  {Seconds(0, 1), Seconds(-5, 1), Seconds(44, 1), Seconds(45, 1),
   Seconds(75, 1), Seconds(440005, 10000), Seconds(1, 0)}

\* int(max(30.0, args.phase4_sim_seconds) * 1000.0)
Phase4WaitMs(x) == (Max(Phase4FloorSeconds * x.den, x.num) * 1000) \div x.den

\* (mutant) every segment takes the full 22000 ms
CurrentMs_Full(remaining) == Phase4SegmentMs

\* current_ms = min(phase4_segment_ms, remaining_ms)
CurrentMs(remaining) == Min(Phase4SegmentMs, remaining)

\* lines 590-593; attempt = 1 says that the loop has been entered
Phase4Begin ==
  /\ At("phase4")
  /\ attempt = 0
  /\ ~Infinite(args.phase4_sim_seconds)
  /\ remaining_ms' = Phase4WaitMs(args.phase4_sim_seconds)
  /\ segment_count' = 0
  /\ segments' = <<>>
  /\ attempt' = 1
  /\ UNCHANGED <<rest, config, flow, ops, next_id, last_error, shot>>

\* int() of an infinite float raises OverflowError
Phase4Overflow ==
  /\ At("phase4")
  /\ attempt = 0
  /\ Infinite(args.phase4_sim_seconds)
  /\ Raise(OtherErr("OverflowError"))
  /\ UNCHANGED <<rest, config, results, ops, next_id, loops>>

\* one round without runtime errors
Phase4Segment ==
  /\ At("phase4")
  /\ attempt = 1
  /\ remaining_ms > 0
  /\ segment_count' = segment_count + 1
  /\ ClientCalls("scenario", 2)
  /\ segments' = Append(segments, CurrentMs(remaining_ms))
  /\ remaining_ms' = remaining_ms - CurrentMs(remaining_ms)
  /\ UNCHANGED <<rest, config, flow, attempt, last_error, shot>>

\* a round in which get_new_errors finds runtime errors
Phase4SegmentErrors ==
  /\ At("phase4")
  /\ attempt = 1
  /\ remaining_ms > 0
  /\ segment_count' = segment_count + 1
  /\ ClientCalls("scenario", 2)
  /\ segments' = Append(segments, CurrentMs(remaining_ms))
  /\ attempt' = 0
  /\ Record(Stmt.name, FALSE)
  /\ Raise(MCPErr("runtime errors during phase4 long simulation", ""))
  /\ UNCHANGED <<rest, config, last_error, shot, remaining_ms>>

\* a round in which the first (first = TRUE) or the second call raises
Phase4SegmentRaises(first, e) ==
  /\ At("phase4")
  /\ attempt = 1
  /\ remaining_ms > 0
  /\ segment_count' = segment_count + 1
  /\ ClientCalls("scenario", IF first THEN 1 ELSE 2)
  /\ segments' = Append(segments, CurrentMs(remaining_ms))
  /\ attempt' = 0
  /\ Raise(e)
  /\ UNCHANGED <<rest, config, results, last_error, shot, remaining_ms>>

\* while remaining_ms > 0: no longer
Phase4Ends ==
  /\ At("phase4")
  /\ attempt = 1
  /\ remaining_ms <= 0
  /\ attempt' = 0
  /\ GoOn
  /\ UNCHANGED <<rest, config, results, ops, next_id, last_error, shot,
                 remaining_ms, segment_count, segments>>

\* ---- the bounded retry helpers of phone main (138-148, 159-174)
\* (mutant) one attempt fewer than asked for
Attempts_OneLess(n) == IF n > 0 THEN n - 1 ELSE 0

\* range(n)
Attempts(n) == n

\* for attempt in range(n): try: <call, parse>; return ... except Exception
RetryReturns ==
  /\ At("retry")
  /\ attempt < Attempts(Stmt.to)
  /\ ClientCall(Stmt.name)
  /\ attempt' = 0
  /\ last_error' = NoExc
  /\ GoOn
  /\ UNCHANGED <<rest, config, results, shot, remaining_ms, segment_count,
                 segments>>

RetryFails(e) ==
  /\ At("retry")
  /\ attempt < Attempts(Stmt.to)
  /\ ClientCall(Stmt.name)
  /\ attempt' = attempt + 1
  /\ last_error' = e
  /\ UNCHANGED <<rest, config, flow, shot, remaining_ms, segment_count,
                 segments>>

\* phone main: raise MCPError(f"Failed to ...: {last_error}")
\* balance pass: if last_error is not None: raise last_error
\*               raise MCPError("failed to read main snapshot")
Exhausted(name, last) ==
  IF name = "_get_main_snapshot_with_retry"
    THEN IF last # NoExc THEN last
         ELSE MCPErr("failed to read main snapshot", "")
    ELSE MCPErr(name, last.head)

RetryExhausted ==
  /\ At("retry")
  /\ attempt = Attempts(Stmt.to)
  /\ attempt' = 0
  /\ last_error' = NoExc
  /\ Raise(Exhausted(Stmt.name, last_error))
  /\ UNCHANGED <<rest, config, results, ops, next_id, shot, remaining_ms,
                 segment_count, segments>>

\* ---- except, finally, summary
Generic == IF harness = "smoke" THEN "smoke_runtime" ELSE "playability_runtime"

\* (mutant) the generic failure is recorded in every aborted run
NeedsGeneric_Always == TRUE

\* if not results or results[-1].passed
NeedsGeneric == results = <<>> \/ results[Len(results)].passed

MainBodyEnds ==
  /\ main_pc = "body"
  /\ ip > Len(Body)
  /\ main_pc' = "finally"
  /\ UNCHANGED <<rest, config, ip, results, project_running, exc, exit_code,
                 ops, next_id, loops>>

\* except Exception as exc
MainExcept ==
  /\ main_pc = "except"
  /\ IF NeedsGeneric THEN Record(Generic, FALSE) ELSE results' = results
  /\ main_pc' = "finally"
  /\ UNCHANGED <<rest, config, ip, project_running, exc, exit_code, ops,
                 next_id, loops>>

\* if project_running and not args.keep_running (phone: if project_running)
StopsEditor ==
  project_running /\ ~(harness = "smoke" /\ args.keep_running)

MainFinally ==
  /\ main_pc = "finally"
  /\ main_pc' = IF StopsEditor THEN "editor_stop" ELSE "client_stop"
  /\ UNCHANGED <<rest, config, ip, results, project_running, exc, exit_code,
                 ops, next_id, loops>>

\* (mutant) an exception of the stop request leaves main
AfterEditorStop_Propagate(raised) == IF raised THEN "done" ELSE "client_stop"

\* try: tool_text("editor", {"action": "stop"}) except Exception: pass
AfterEditorStop(raised) == "client_stop"

EditorStop(raised) ==
  /\ main_pc = "editor_stop"
  /\ ClientCalls(IF raised THEN "editor stop raised" ELSE "editor stop", 1)
  /\ main_pc' = AfterEditorStop(raised)
  /\ UNCHANGED <<rest, config, ip, results, project_running, exc, exit_code,
                 loops>>

\* client.stop()
ClientStop ==
  /\ main_pc = "client_stop"
  /\ ops' = Noted(ops, "client.stop")
  /\ main_pc' = "summary"
  /\ UNCHANGED <<rest, config, ip, results, project_running, exc, exit_code,
                 next_id, loops>>

\* failed = len(results) - passed; return 1 if failed > 0 else 0
Failed == {i \in DOMAIN results : ~results[i].passed}
MainReturns ==
  /\ main_pc = "summary"
  /\ exit_code' = IF Cardinality(Failed) > 0 THEN 1 ELSE 0
  /\ main_pc' = "done"
  /\ UNCHANGED <<rest, config, ip, results, project_running, exc, ops,
                 next_id, loops>>

\* ---- the specification of the two main functions
Harnesses == {"smoke", "phone"}

\* --keep-running and --phase4-sim-seconds are options of smoke main only
MainArgs(h) ==
  IF h = "smoke"
    THEN [keep_running : BOOLEAN, phase4_sim_seconds : Phase4Durations]
    ELSE [keep_running : {FALSE}, phase4_sim_seconds : {Seconds(0, 1)}]

InitMain ==
  /\ verbose = FALSE
  /\ request_timeout \in RequestTimeouts
  /\ next_id = FirstId
  /\ pc = "idle"
  /\ request_id = NoId
  /\ started = 0
  /\ limit = 0
  /\ deadline = 0
  /\ sel_until = 0
  /\ line = NoLine
  /\ msg = NoLine
  /\ seen = {}
  /\ sent = <<>>
  /\ pipe = <<>>
  /\ pfrag = FALSE
  /\ rbuf = <<>>
  /\ rfrag = FALSE
  /\ last_read = [by |-> NoId, at |-> 0]
  /\ stdout_closed = FALSE
  /\ returncode = NoCode
  /\ written = 0
  /\ now = 0
  /\ calls = <<>>
  /\ api = <<>>
  /\ signals = <<>>
  /\ wait_until = 0
  /\ closed = {}
  /\ err_written = 0
  /\ err_frag = FALSE
  /\ err_closed = FALSE
  /\ err_read = 0
  /\ drain_pc = "readline"
  /\ drain_line = NoErrLine
  /\ lock = "free"
  /\ stderr_lines = <<>>
  /\ appended = 0
  /\ tail_pc = "idle"
  /\ tail_iter = <<>>
  /\ tail_result = <<>>
  /\ tail_count = 0
  /\ parsed = <<>>
  /\ harness \in Harnesses
  /\ args \in MainArgs(harness)
  /\ main_pc = "body"
  /\ ip = 1
  /\ results = <<>>
  /\ project_running = FALSE
  /\ exc = NoExc
  /\ exit_code = -1
  /\ ops = <<>>
  /\ attempt = 0
  /\ last_error = NoExc
  /\ shot = "empty"
  /\ remaining_ms = 0
  /\ segment_count = 0
  /\ segments = <<>>
  /\ editor_proc = "none"
  /\ log_file = "none"
  /\ client = "none"
  /\ outcome = [ok |-> FALSE, reason |-> "none"]
  /\ scene_stopped_early = FALSE
  /\ snapshots = 0
  /\ stall_snapshots = <<>>
  /\ sample_seconds = 0
  /\ stall = <<>>

NextMain ==
  \/ MainCallReturns
  \/ \E e \in CallFailures : MainCallRaises(e)
  \/ MainEvalReturns
  \/ \E e \in EvalFailures : MainEvalRaises(e)
  \/ MainCheckFails
  \/ MainCheckPasses
  \/ MainSetRunning
  \/ MainBranch
  \/ StartupPlaying
  \/ StartupNotYet
  \/ \E e \in CallFailures \cup EvalFailures : StartupRaises(e)
  \/ StartupTimeout
  \/ \E content \in ShotKinds : WarmUpReturns(content)
  \/ \E e \in CallFailures : WarmUpRetry(e)
  \/ \E e \in CallFailures : WarmUpRaises(e)
  \/ WarmUpExhausted
  \/ Phase4Begin
  \/ Phase4Overflow
  \/ Phase4Segment
  \/ Phase4SegmentErrors
  \/ \E first \in BOOLEAN, e \in CallFailures : Phase4SegmentRaises(first, e)
  \/ Phase4Ends
  \/ RetryReturns
  \/ \E e \in AttemptFailures : RetryFails(e)
  \/ RetryExhausted
  \/ MainBodyEnds
  \/ MainExcept
  \/ MainFinally
  \/ \E raised \in BOOLEAN : EditorStop(raised)
  \/ ClientStop
  \/ MainReturns

SpecMain == InitMain /\ [][NextMain]_vars

\* ---- the retry helpers on their own
\* capture_screenshot_size() and node_properties(path, retries) of phone main,
\* and BalanceRunner._get_main_snapshot_with_retry(client, attempts, delay_s)
\* of tools/mcp_ai_balance_pass.py, called with any number of attempts on a
\* client that has made any number of requests before.
MaxRetries == 5
MaxBefore == 3
Helpers ==
  {"capture_screenshot_size", "node_properties",
   "_get_main_snapshot_with_retry"}
HelperArgs ==
  {[helper |-> "capture_screenshot_size", attempts |-> 4]} \cup
  [helper : {"node_properties", "_get_main_snapshot_with_retry"},
   attempts : 0 .. MaxRetries]

InitRetry ==
  /\ verbose = FALSE
  /\ request_timeout \in RequestTimeouts
  /\ next_id \in FirstId .. FirstId + MaxBefore
  /\ pc = "idle"
  /\ request_id = NoId
  /\ started = 0
  /\ limit = 0
  /\ deadline = 0
  /\ sel_until = 0
  /\ line = NoLine
  /\ msg = NoLine
  /\ seen = {}
  /\ sent = <<>>
  /\ pipe = <<>>
  /\ pfrag = FALSE
  /\ rbuf = <<>>
  /\ rfrag = FALSE
  /\ last_read = [by |-> NoId, at |-> 0]
  /\ stdout_closed = FALSE
  /\ returncode = NoCode
  /\ written = 0
  /\ now = 0
  /\ calls = <<>>
  /\ api = <<>>
  /\ signals = <<>>
  /\ wait_until = 0
  /\ closed = {}
  /\ err_written = 0
  /\ err_frag = FALSE
  /\ err_closed = FALSE
  /\ err_read = 0
  /\ drain_pc = "readline"
  /\ drain_line = NoErrLine
  /\ lock = "free"
  /\ stderr_lines = <<>>
  /\ appended = 0
  /\ tail_pc = "idle"
  /\ tail_iter = <<>>
  /\ tail_result = <<>>
  /\ tail_count = 0
  /\ parsed = <<>>
  /\ harness = "helper"
  /\ args \in HelperArgs
  /\ main_pc = "body"
  /\ ip = 1
  /\ results = <<>>
  /\ project_running = FALSE
  /\ exc = NoExc
  /\ exit_code = -1
  /\ ops = <<>>
  /\ attempt = 0
  /\ last_error = NoExc
  /\ shot = "empty"
  /\ remaining_ms = 0
  /\ segment_count = 0
  /\ segments = <<>>
  /\ editor_proc = "none"
  /\ log_file = "none"
  /\ client = "none"
  /\ outcome = [ok |-> FALSE, reason |-> "none"]
  /\ scene_stopped_early = FALSE
  /\ snapshots = 0
  /\ stall_snapshots = <<>>
  /\ sample_seconds = 0
  /\ stall = <<>>

NextRetry ==
  \/ RetryReturns
  \/ \E e \in AttemptFailures : RetryFails(e)
  \/ RetryExhausted

SpecRetry == InitRetry /\ [][NextRetry]_vars

\* Each attempt is a call with a timeout of its own and a sleep of bounded
\* length, so a helper that is running takes its next step.
FairRetry == WF_vars(NextRetry)
SpecRetryLive == SpecRetry /\ FairRetry

\* ---- run_difficulty of the balance pass (118-294)
StartFailures == {OtherErr("FileNotFoundError"), OtherErr("PermissionError")}
ClientFailures == {OtherErr("FileNotFoundError"), OtherErr("ValueError")}

\* _start_editor returns: the log file is open and the process holds it
StartEditorReturns ==
  /\ At("start_editor")
  /\ log_file' = "open"
  /\ editor_proc' = "running"
  /\ GoOn
  /\ UNCHANGED <<core, config, results, ops, next_id, loops, client, outcome,
                 scene_stopped_early, snapshots>>

\* log_path.open raises: nothing was opened, editor_proc is still None
LogOpenRaises(e) ==
  /\ At("start_editor")
  /\ Raise(e)
  /\ UNCHANGED <<core, config, results, ops, next_id, loops, balance>>

\* subprocess.Popen raises after log_path.open returned: the file is open,
\* editor_proc is still None
PopenRaises(e) ==
  /\ At("start_editor")
  /\ log_file' = "open"
  /\ Raise(e)
  /\ UNCHANGED <<core, config, results, ops, next_id, loops, editor_proc,
                 client, outcome, scene_stopped_early, snapshots>>

\* A file object that nothing refers to: the interpreter may close it when
\* it reclaims the object, at a time of its own choosing or never.
LogFileReclaimed ==
  /\ log_file = "open"
  /\ editor_proc = "none"
  /\ main_pc # "body"
  /\ log_file' = "closed"
  /\ UNCHANGED <<core, orch, next_id, editor_proc, client, outcome,
                 scene_stopped_early, snapshots>>

NewClientReturns ==
  /\ At("new_client")
  /\ client' = "live"
  /\ GoOn
  /\ UNCHANGED <<core, config, results, ops, next_id, loops, editor_proc,
                 log_file, outcome, scene_stopped_early, snapshots>>

\* MCPClient(...) raises (Popen of the server command): client is still None
NewClientRaises(e) ==
  /\ At("new_client")
  /\ Raise(e)
  /\ UNCHANGED <<core, config, results, ops, next_id, loops, balance>>

\* if <bad>: raise MCPError(...)
RaiseIfHolds ==
  /\ At("raise_if")
  /\ Raise(MCPErr(Stmt.name, ""))
  /\ UNCHANGED <<rest, config, results, ops, next_id, loops>>

RaiseIfNot ==
  /\ At("raise_if")
  /\ GoOn
  /\ UNCHANGED <<rest, config, results, ops, next_id, loops>>

\* if not bool(state.get("is_playing", False)): ... break
SceneStopped ==
  /\ At("stopped_early")
  /\ scene_stopped_early' = TRUE
  /\ ip' = Stmt.to
  /\ UNCHANGED <<core, config, main_pc, results, project_running, exc,
                 exit_code, ops, next_id, loops, editor_proc, log_file, client,
                 outcome, snapshots>>

ScenePlaying ==
  /\ At("stopped_early")
  /\ GoOn
  /\ UNCHANGED <<rest, config, results, ops, next_id, loops>>

\* snapshots.append(snap)
SnapshotAppended ==
  /\ At("append")
  /\ snapshots' = snapshots + 1
  /\ GoOn
  /\ UNCHANGED <<core, config, results, ops, next_id, loops, editor_proc,
                 log_file, client, outcome, scene_stopped_early>>

\* if snapshots: final = snapshots[-1]  else: final = ...with_retry(client)
FinalSnapshot ==
  /\ At("if_snapshots")
  /\ ip' = IF snapshots > 0 THEN Stmt.to ELSE ip + 1
  /\ UNCHANGED <<rest, config, main_pc, results, project_running, exc,
                 exit_code, ops, next_id, loops>>

\* try: ... except Exception: pass -- n requests were made, and whether one
\* of them raised makes no difference to what follows
QuietCalls(n, raised) ==
  /\ At("quiet")
  /\ n \in 1 .. Stmt.to
  /\ ClientCalls(IF raised THEN Stmt.name \o " raised" ELSE Stmt.name, n)
  /\ GoOn
  /\ UNCHANGED <<rest, config, results, loops>>

\* ok = runtime_errors == 0 and fps >= ... and ... and not scene_stopped_early
Ok(clean, early) == clean /\ ~early

\* reason = "ok" if ok else ("scene_stopped_early" if ... else "runtime/perf issues")
Reason(ok, early) ==
  IF ok THEN "ok"
  ELSE IF early THEN "scene_stopped_early" ELSE "runtime/perf issues"

\* return DifficultyResult(...) of the try body
BodyReturns(clean) ==
  /\ At("return")
  /\ outcome' = [ok |-> Ok(clean, scene_stopped_early),
                 reason |-> Reason(Ok(clean, scene_stopped_early),
                                   scene_stopped_early)]
  /\ main_pc' = "finally"
  /\ UNCHANGED <<core, config, ip, results, project_running, exc, exit_code,
                 ops, next_id, loops, editor_proc, log_file, client,
                 scene_stopped_early, snapshots>>

\* except Exception as exc: return DifficultyResult(ok=False, reason=str(exc))
ExceptReturns ==
  /\ main_pc = "except"
  /\ outcome' = [ok |-> FALSE, reason |-> exc.head]
  /\ main_pc' = "finally"
  /\ UNCHANGED <<core, config, ip, results, project_running, exc, exit_code,
                 ops, next_id, loops, editor_proc, log_file, client,
                 scene_stopped_early, snapshots>>

\* try: client.stop() except Exception: pass
AfterClientStop(raised) == "stop_editor"

\* finally: if client is not None: ...
FinallyNoClient ==
  /\ main_pc = "finally"
  /\ client = "none"
  /\ main_pc' = "stop_editor"
  /\ UNCHANGED <<rest, config, ip, results, project_running, exc, exit_code,
                 ops, next_id, loops>>

FinallyClientStop(raised) ==
  /\ main_pc = "finally"
  /\ client # "none"
  /\ client' = IF raised THEN "stop raised" ELSE "stopped"
  /\ ops' = Noted(ops, "client.stop")
  /\ main_pc' = AfterClientStop(raised)
  /\ UNCHANGED <<core, config, ip, results, project_running, exc, exit_code,
                 next_id, loops, editor_proc, log_file, outcome,
                 scene_stopped_early, snapshots>>

\* _stop_editor(None): return
StopEditorNone ==
  /\ main_pc = "stop_editor"
  /\ editor_proc = "none"
  /\ main_pc' = "done"
  /\ UNCHANGED <<rest, config, ip, results, project_running, exc, exit_code,
                 ops, next_id, loops>>

\* how the process ends: it had exited (poll() is not None), it exits within
\* the 5 seconds after terminate(), or it is killed
EditorEnds == {"exited", "terminated", "killed"}

\* _stop_editor(proc): the process is ended and proc._aoem_log_file closed
StopEditor(how) ==
  /\ main_pc = "stop_editor"
  /\ editor_proc # "none"
  /\ editor_proc' = how
  /\ log_file' = "closed"
  /\ ops' = Noted(ops, "_stop_editor")
  /\ main_pc' = "done"
  /\ UNCHANGED <<core, config, ip, results, project_running, exc, exit_code,
                 next_id, loops, client, outcome, scene_stopped_early,
                 snapshots>>

InitBalance ==
  /\ verbose = FALSE
  /\ request_timeout \in RequestTimeouts
  /\ next_id = FirstId
  /\ pc = "idle"
  /\ request_id = NoId
  /\ started = 0
  /\ limit = 0
  /\ deadline = 0
  /\ sel_until = 0
  /\ line = NoLine
  /\ msg = NoLine
  /\ seen = {}
  /\ sent = <<>>
  /\ pipe = <<>>
  /\ pfrag = FALSE
  /\ rbuf = <<>>
  /\ rfrag = FALSE
  /\ last_read = [by |-> NoId, at |-> 0]
  /\ stdout_closed = FALSE
  /\ returncode = NoCode
  /\ written = 0
  /\ now = 0
  /\ calls = <<>>
  /\ api = <<>>
  /\ signals = <<>>
  /\ wait_until = 0
  /\ closed = {}
  /\ err_written = 0
  /\ err_frag = FALSE
  /\ err_closed = FALSE
  /\ err_read = 0
  /\ drain_pc = "readline"
  /\ drain_line = NoErrLine
  /\ lock = "free"
  /\ stderr_lines = <<>>
  /\ appended = 0
  /\ tail_pc = "idle"
  /\ tail_iter = <<>>
  /\ tail_result = <<>>
  /\ tail_count = 0
  /\ parsed = <<>>
  /\ harness = "balance"
  /\ args = [keep_running |-> FALSE, phase4_sim_seconds |-> Seconds(0, 1)]
  /\ main_pc = "body"
  /\ ip = 1
  /\ results = <<>>
  /\ project_running = FALSE
  /\ exc = NoExc
  /\ exit_code = -1
  /\ ops = <<>>
  /\ attempt = 0
  /\ last_error = NoExc
  /\ shot = "empty"
  /\ remaining_ms = 0
  /\ segment_count = 0
  /\ segments = <<>>
  /\ editor_proc = "none"
  /\ log_file = "none"
  /\ client = "none"
  /\ outcome = [ok |-> FALSE, reason |-> "none"]
  /\ scene_stopped_early = FALSE
  /\ snapshots = 0
  /\ stall_snapshots = <<>>
  /\ sample_seconds = 0
  /\ stall = <<>>

NextBalance ==
  \/ StartEditorReturns
  \/ \E e \in StartFailures : LogOpenRaises(e)
  \/ \E e \in StartFailures : PopenRaises(e)
  \/ LogFileReclaimed
  \/ NewClientReturns
  \/ \E e \in ClientFailures : NewClientRaises(e)
  \/ MainCallReturns
  \/ \E e \in CallFailures : MainCallRaises(e)
  \/ MainEvalReturns
  \/ \E e \in EvalFailures : MainEvalRaises(e)
  \/ RaiseIfHolds
  \/ RaiseIfNot
  \/ MainBranch
  \/ StartupPlaying
  \/ StartupNotYet
  \/ \E e \in CallFailures \cup EvalFailures : StartupRaises(e)
  \/ StartupTimeout
  \/ SceneStopped
  \/ ScenePlaying
  \/ RetryReturns
  \/ \E e \in AttemptFailures : RetryFails(e)
  \/ RetryExhausted
  \/ SnapshotAppended
  \/ FinalSnapshot
  \/ \E n \in 1 .. 2, raised \in BOOLEAN : QuietCalls(n, raised)
  \/ \E clean \in BOOLEAN : BodyReturns(clean)
  \/ ExceptReturns
  \/ FinallyNoClient
  \/ \E raised \in BOOLEAN : FinallyClientStop(raised)
  \/ StopEditorNone
  \/ \E how \in EditorEnds : StopEditor(how)

SpecBalance == InitBalance /\ [][NextBalance]_vars

\* ---- _estimate_stall_seconds of the balance pass (296-312)
MaxSnapshots == 3

\* A number of a snapshot is num / den; den = 0 stands for a key the
\* snapshot does not have.
Num(num, den) == [num |-> num, den |-> den]
Missing == Num(0, 0)

\* int(x) of a number that is not negative
ToInt(x) == x.num \div x.den

\* snap.get(key, default)
Get(snap, key, default) == IF snap[key] = Missing THEN default ELSE snap[key]

Ages == {Missing, Num(1, 1), Num(2, 1), Num(5, 2), Num(3, 1)}
Counts == {Num(0, 1), Num(1, 1)}
Snapshots ==
  [balance_ai_age : Ages, balance_ai_villagers : Counts \cup {Missing},
   balance_ai_military : Counts, balance_ai_buildings : Counts]
SampleSeconds == {2, 5}
\* stall before the function has returned; <<x>> once it has returned x
NotRun == <<>>

\* key = (int(snap.get("balance_ai_age", 1)), ...)
Key(snap) ==
  <<ToInt(Get(snap, "balance_ai_age", Num(1, 1))),
    ToInt(Get(snap, "balance_ai_villagers", Num(0, 1))),
    ToInt(Get(snap, "balance_ai_military", Num(0, 1))),
    ToInt(Get(snap, "balance_ai_buildings", Num(0, 1)))>>

StallAge == 3

\* (mutant) a stall is counted at every age
Stalled_AnyAge(key, previous_key) == previous_key # <<>> /\ key = previous_key

\* previous_key is not None and key == previous_key and key[0] < 3
\* (<<>> stands for None)
Stalled(key, previous_key) ==
  previous_key # <<>> /\ key = previous_key /\ key[1] < StallAge

\* the for loop over the first k snapshots: stall after them
RECURSIVE StallAfter(_, _, _)
StallAfter(snaps, k, seconds) ==
  IF k = 0 THEN 0
  ELSE StallAfter(snaps, k - 1, seconds)
         + (IF Stalled(Key(snaps[k]),
                       IF k = 1 THEN <<>> ELSE Key(snaps[k - 1]))
              THEN seconds ELSE 0)

\* if len(snapshots) < 2: return 0.0 ... return stall
EstimateStallSeconds(snaps, seconds) ==
  IF Len(snaps) < 2 THEN 0 ELSE StallAfter(snaps, Len(snaps), seconds)

\* the caller's snapshots.append(snap)
TakeSnapshot(snap) ==
  /\ stall = NotRun
  /\ Len(stall_snapshots) < MaxSnapshots
  /\ stall_snapshots' = Append(stall_snapshots, snap)
  /\ UNCHANGED <<core_but_estimate, orch, balance, next_id, sample_seconds,
                 stall>>

\* stall_seconds = self._estimate_stall_seconds(snapshots, interval)
EstimateStall(seconds) ==
  /\ stall = NotRun
  /\ sample_seconds' = seconds
  /\ stall' = <<EstimateStallSeconds(stall_snapshots, seconds)>>
  /\ UNCHANGED <<core_but_estimate, orch, balance, next_id, stall_snapshots>>

InitStall == Init /\ ~verbose

NextStall ==
  \/ \E snap \in Snapshots : TakeSnapshot(snap)
  \/ \E seconds \in SampleSeconds : EstimateStall(seconds)

SpecStall == InitStall /\ [][NextStall]_vars


\* =================================================================
\* Properties
\* =================================================================

\* This step is readline returning the text l to _read_message.
ReadReturns(l) == pc = "readline" /\ pc' # "readline" /\ line' = l

\* This step ends a request call; LastCall' is how.
Resolves == Len(calls') = Len(calls) + 1
LastCall == calls[Len(calls)]

\* A Response envelope: an id together with a result or an error.
IsResponse(l) == l.shape = "dict" /\ l.id # NoId /\ l.body \in {"result", "error"}

TimedOutErrs == {TimedOutRequest, TimedOutRead}

\* The ids of the calls that ended by a timeout.
AbandonedIds == {calls[k].id : k \in {j \in DOMAIN calls : calls[j].err \in TimedOutErrs}}

\* ---- C1 ----------------------------------------------------------
\* C1: the ids written to the command stream are strictly increasing (so none
\* is used twice), whatever the outcome of the calls; the id of the call in
\* progress is the last id written; and a call that returned a message
\* returned one whose id is the id that this call wrote.
C1_IdsIncreasingAndMatched ==
  /\ \A i, j \in DOMAIN sent : i < j => sent[i].id < sent[j].id
  /\ pc # "idle" => sent # <<>> /\ sent[Len(sent)].id = request_id
  /\ \A k \in DOMAIN calls :
       calls[k].err = Returned =>
         /\ calls[k].ret.id = calls[k].id
         /\ \E i \in DOMAIN sent : sent[i].id = calls[k].id

\* C1 witness: a call that timed out followed by a call that returned.
C1_Witness ==
  /\ Len(sent) = 2
  /\ Len(calls) = 2
  /\ calls[1].err \in TimedOutErrs
  /\ calls[2].err = Returned

C4_NeverStale ==
  [][(Resolves /\ LastCall'.err = Returned)
       => /\ pc # "idle"
          /\ LastCall'.ret.id = request_id
          /\ LastCall'.id = request_id
          /\ \A j \in DOMAIN calls : calls[j].id # LastCall'.ret.id]_vars

\* C4 witness: call 1 timed out; call 2 read the late response to call 1,
\* discarded it, and then returned a message.
C4_Witness ==
  /\ Len(calls) = 2
  /\ calls[1].err \in TimedOutErrs
  /\ calls[2].err = Returned
  /\ calls[1].id \in calls[2].skipped

\* ---- C5 ----------------------------------------------------------
\* C5: a call that has read nothing but notifications does not time out when
\* its matching response reached the client before the deadline (the response
\* is the next line in the client's reader, read from the pipe by this call
\* before the deadline).
C5_Claim ==
  [][(pc # "idle" /\ Resolves /\ LastCall'.err \in TimedOutErrs)
       => ~(/\ seen = {NoId}
            /\ rbuf # <<>>
            /\ IsResponse(Head(rbuf))
            /\ Head(rbuf).id = request_id
            /\ last_read.by = request_id
            /\ last_read.at < started + limit)]_vars

\* ---- C6 ----------------------------------------------------------
\* C6: a line that is empty / whitespace or not valid JSON is dropped: reading
\* it raises nothing, returns nothing from request, changes neither the call
\* nor its deadline, and _read_message goes on to read the next line.
C6_NoiseDropped ==
  [][\A l \in {BlankLine, NonJsonLine} :
       ReadReturns(l)
         => /\ pc' = "rm_loop"
            /\ ~Resolves
            /\ calls' = calls
            /\ msg' = msg
            /\ seen' = seen
            /\ request_id' = request_id
            /\ deadline' = deadline]_vars

\* C6 witness: _read_message is back at its loop head after a noise line.
C6_Witness ==
  /\ pc = "rm_loop"
  /\ line \in {BlankLine, NonJsonLine}

\* ---- C7 ----------------------------------------------------------
\* C7: a line holding a JSON value that is not an object is dropped like
\* noise: nothing is raised and the call goes on waiting.
C7_Claim ==
  [][\A l \in {ListLine, ScalarLine} :
       ReadReturns(l) => (~Resolves /\ pc' \in {"rm_loop", "req_loop"})]_vars

\* ---- C8 ----------------------------------------------------------
\* C8: a call is never still outstanding later than limit + one poll interval
\* after its request was sent.
C8_Claim == pc # "idle" => now <= started + limit + Poll

\* ---- C9 ----------------------------------------------------------
\* C9: every call resolves, once, as Matched, TimedOut or TransportFailed: no
\* call ends any other way, no id resolves twice, and no call sits blocked
\* past its deadline.
C9_Claim ==
  /\ \A k \in DOMAIN calls :
       calls[k].err \in {Returned} \cup TimedOutErrs \cup {ServerExited, BrokenPipe}
  /\ \A j, k \in DOMAIN calls : j < k => calls[j].id # calls[k].id
  /\ ~(ReadBlocked /\ now > deadline)

\* ---- C10 ---------------------------------------------------------
\* C10: a call fails with the server-exited error only when the child has
\* exited, and the error carries the child's exit code.
C10_Claim ==
  \A k \in DOMAIN calls :
    calls[k].err = ServerExited => calls[k].code \in ExitCodes

\* ---- C11 --------------------------------------------------------
\* C11: _read_message never keeps the caller past its deadline: while the
\* caller is inside _read_message (at its loop head, in select or in
\* readline), the clock has not passed the deadline, also when the child
\* wrote a line without its newline and then stalled.
C11_Claim ==
  pc \in {"rm_loop", "select", "readline"} => now <= deadline

\* ---- C12 --------------------------------------------------------
\* A step in which a call of the given operation ends.
ApiEnds(op) == Len(api') = Len(api) + 1 /\ api'[Len(api')].op = op
LastApi == api[Len(api)]

\* What every notify call leaves alone: the id counter, the inbound stream
\* and its reader, the clock, the caller's position and the call history.
NotifyTouchesNothingElse ==
  /\ next_id' = next_id
  /\ UNCHANGED <<pipe, pfrag, rbuf, rfrag, last_read, line, msg>>
  /\ now' = now
  /\ pc' = "idle"
  /\ calls' = calls

\* A request that starts right after any number of notifications takes the
\* id it would have taken without them: FirstId plus the number of earlier
\* request calls.
RequestIdIgnoresNotifications ==
  pc = "idle" /\ request_id' # NoId => request_id' = FirstId + Len(calls)

\* C12 (as stated): every notify call writes exactly one message without an
\* id, allocates no request id, reads nothing from the inbound stream and
\* returns without waiting.
C12_Original ==
  [][/\ ApiEnds("notify") =>
          /\ Len(sent') = Len(sent) + 1
          /\ sent'[Len(sent')].id = NoId
          /\ NotifyTouchesNothingElse
     /\ RequestIdIgnoresNotifications]_vars

\* C12 (amended): a notify call that returns has written exactly one message
\* without an id; a notify call whose write fails because the child is gone
\* has written nothing and ends with the write's error.  Either way it
\* allocates no request id, reads nothing from the inbound stream and does
\* not wait.
C12_Amended ==
  [][/\ ApiEnds("notify") =>
          /\ IF api'[Len(api')].err = Returned
               THEN /\ Len(sent') = Len(sent) + 1
                    /\ sent'[Len(sent')].id = NoId
                    /\ SubSeq(sent', 1, Len(sent)) = sent
               ELSE /\ api'[Len(api')].err = BrokenPipe
                    /\ StdinBroken
                    /\ sent' = sent
          /\ NotifyTouchesNothingElse
     /\ RequestIdIgnoresNotifications]_vars

\* Two requests with a notification between them, sent while a line of the
\* child was waiting unread; the second request has the id after the first.
C12_Witness ==
  /\ Len(sent) = 3
  /\ sent[1].id = FirstId
  /\ sent[2].id = NoId
  /\ sent[3].id = FirstId + 1
  /\ Len(api) = 1
  /\ LastApi.err = Returned
  /\ rbuf # <<>>

\* ---- C13 --------------------------------------------------------
\* Every way a request call of the client ends is one of RequestEnds, a failed
\* write apart (holds of request as modelled step by step).
RequestEndsCoverRequest ==
  \A k \in DOMAIN calls :
    \/ calls[k].err \in {BrokenPipe, TypeErr}
    \/ [err |-> calls[k].err, ret |-> calls[k].ret] \in RequestEnds(calls[k].id)

InitializedNotification == NotifyMessage("notifications/initialized")
LastCallNext == calls'[Len(calls')]

\* C13: notifications/initialized is written only by an initialize call whose
\* request, sent before, has returned a message without an error field; an
\* initialize call whose request fails (timeout, process exit, any exception)
\* or returns an error response fails and writes no notification.
C13_NotifyOnlyAfterSuccess ==
  [][/\ (Len(sent') > Len(sent) /\ sent'[Len(sent')] = InitializedNotification)
          => /\ pc = "initialize"
             /\ Len(sent') = Len(sent) + 1
             /\ sent[Len(sent)] = [id |-> request_id, method |-> "initialize"]
             /\ LastCallNext.id = request_id
             /\ LastCallNext.err = Returned
             /\ LastCallNext.ret.body # "error"
     /\ (ApiEnds("initialize")
           /\ (LastCallNext.err # Returned \/ LastCallNext.ret.body = "error"))
          => /\ api'[Len(api')].err # Returned
             /\ sent' = sent]_vars

\* An initialize call has returned: request, then notification.
C13_Witness ==
  /\ sent = <<[id |-> FirstId, method |-> "initialize"], InitializedNotification>>
  /\ Len(api) = 1
  /\ LastApi.op = "initialize"
  /\ LastApi.err = Returned

\* ---- C14 --------------------------------------------------------
\* C14: for every configured request timeout, the limit of the initialize
\* request is the larger of 45 s and the configured timeout: never below
\* 45 s, never below the configured timeout.
C14_InitializeDeadline ==
  pc = "initialize" =>
    /\ limit >= InitializeFloor
    /\ limit >= request_timeout
    /\ limit \in {InitializeFloor, request_timeout}

\* initialize is waiting with a configured timeout below 45 s.
C14_Witness ==
  /\ pc = "initialize"
  /\ request_timeout < InitializeFloor
  /\ limit = InitializeFloor

\* ---- C15 --------------------------------------------------------
\* C15: a call_tool call whose request returned a message returns the
\* result's content exactly when the message has no error field and isError
\* is absent or false; with an error field it fails with that error, whatever
\* isError says; without one and with isError true it fails with the text
\* extracted from the result's content.
C15_CallToolDecision ==
  \A k \in DOMAIN api :
    (api[k].op = "call_tool" /\ api[k].ret # NoLine) =>
      LET a == api[k]
          hasError == a.ret.body = "error"
          flag == a.result.isError = "true"
      IN  /\ a.err = Returned <=> (~hasError /\ ~flag)
          /\ a.err = Returned => a.content = a.result.content
          /\ hasError => a.err = ToolCallFailed
          /\ (~hasError /\ flag) =>
                /\ a.err = ToolReturnedError
                /\ a.text = TextFromContent(a.result.content)

\* One call_tool call returned a content list, another failed on isError
\* with extracted text.
C15_Witness ==
  /\ Len(api) = 2
  /\ api[1].op = "call_tool"
  /\ api[1].err = Returned
  /\ api[1].content = <<TextPart("a"), ImagePart>>
  /\ api[2].op = "call_tool"
  /\ api[2].err = ToolReturnedError
  /\ api[2].text = <<"b", "a">>

\* ---- C16 --------------------------------------------------------
\* C16: what a call returns is a response, a message with the call's id and
\* a result or an error; a request of the server (id and method, no result or
\* error) is never returned as the call's response, also when its id equals
\* the outstanding id.
C16_Claim ==
  \A k \in DOMAIN calls :
    calls[k].err = Returned =>
      /\ calls[k].ret.id = calls[k].id
      /\ calls[k].ret.body \in {"result", "error"}

\* ---- C17 --------------------------------------------------------
\* The ids of the request calls made so far: the ended ones and the one in
\* progress.
InvocationIds ==
  {calls[k].id : k \in DOMAIN calls} \cup
  (IF pc = "idle" THEN {} ELSE {request_id})

\* The positions of the command stream that carry the id.
WrittenFor(id) == {i \in DOMAIN sent : sent[i].id = id}

FailedInSend(id) ==
  \E k \in DOMAIN calls : calls[k].id = id /\ calls[k].err = BrokenPipe

\* C17 (as stated): every request call, whatever its outcome, has exactly
\* one message in the command stream, and the stream holds nothing else.
C17_Original ==
  /\ \A id \in InvocationIds : Cardinality(WrittenFor(id)) = 1
  /\ \A i \in DOMAIN sent :
       sent[i].id \in InvocationIds /\ sent[i].method = "request"

\* C17 (amended): every request call has exactly one message in the command
\* stream, except a call whose write failed, which has none; a call that
\* timed out or failed later is not sent again, and the stream holds no
\* cancellation or other follow-up.
C17_Amended ==
  /\ \A id \in InvocationIds :
       Cardinality(WrittenFor(id)) = IF FailedInSend(id) THEN 0 ELSE 1
  /\ \A i \in DOMAIN sent :
       sent[i].id \in InvocationIds /\ sent[i].method = "request"

\* A call has timed out and the next call has ended too: two messages.
C17_Witness ==
  /\ Len(calls) = 2
  /\ calls[1].err \in TimedOutErrs
  /\ calls[2].err = ServerExited
  /\ Len(sent) = 2
  /\ pc = "idle"

\* ---- C18 --------------------------------------------------------
\* The ids written to the command stream whose call has not ended.
Outstanding ==
  {sent[i].id : i \in DOMAIN sent} \ {calls[k].id : k \in DOMAIN calls}

\* C18: at most one call is outstanding at any moment, and none while the
\* caller is between calls: a request is written only when every earlier
\* request has been matched, has timed out or has failed.
C18_SingleOutstanding ==
  /\ Cardinality(Outstanding) <= 1
  /\ pc = "idle" => Outstanding = {}
  /\ pc # "idle" => Outstanding = {request_id}

\* The second request is waiting, after the first has timed out.
C18_Witness ==
  /\ Len(sent) = 2
  /\ Len(calls) = 1
  /\ calls[1].err \in TimedOutErrs
  /\ pc = "select"
  /\ Outstanding = {FirstId + 1}

\* ---- C19 --------------------------------------------------------
\* A step in which a stop call begins.
StopBegins == Len(api') = Len(api) + 1 /\ api'[Len(api')].op = "stop"

\* The stop call that begins in this step is over in the same step: no
\* signal, no error, no waiting.
StopIsNoOp ==
  /\ pc' = "idle"
  /\ api'[Len(api')].err = Returned
  /\ api'[Len(api')].sigs = <<>>
  /\ signals' = signals
  /\ now' = now
  /\ UNCHANGED <<wait_until, returncode>>

\* C19: a stop call made when the child has already exited is a no-op (no
\* signal, no error, no waiting), and so is every stop call after the first.
C19_Claim ==
  [][StopBegins => /\ returncode # NoCode => StopIsNoOp
                   /\ Len(api) >= 1 => StopIsNoOp]_vars

\* ---- C20 --------------------------------------------------------
\* C20: stop on a running child sends SIGTERM first, then waits no longer
\* than the grace period of 5 s, and sends SIGKILL only when the wait has run
\* for the whole period and the child has still not exited; a child that
\* exited in time is not sent SIGKILL, and the call is over within the grace
\* period either way.
C20_GracefulThenKill ==
  [][/\ (Len(signals') > Len(signals) /\ signals'[Len(signals')] = "KILL")
          => /\ Len(signals) >= 1 /\ signals[Len(signals)] = "TERM"
             /\ LastApi.sigs = <<"TERM">>
             /\ now >= wait_until
             /\ now - (wait_until - Grace) = Grace
             /\ returncode = NoCode
             /\ pc' = "idle"
     /\ (Len(signals') > Len(signals) /\ signals'[Len(signals')] = "TERM")
          => /\ returncode = NoCode
             /\ LastApi.sigs = <<>>
     /\ pc' \in {"stop_wait", "stop_kill"} => now' <= wait_until'
     /\ \A k \in DOMAIN api' :
          api'[k].op = "stop" => /\ api'[k].waited <= Grace
                                 /\ api'[k].sigs \in {<<>>, <<"TERM">>,
                                                       <<"TERM", "KILL">>}]_vars

\* A stop call has waited the whole grace period and then sent SIGKILL.
C20_Witness ==
  /\ Len(api) = 1
  /\ LastApi.op = "stop"
  /\ LastApi.err = Returned
  /\ LastApi.sigs = <<"TERM", "KILL">>
  /\ LastApi.waited = Grace
  /\ pc = "idle"

\* ---- C21 --------------------------------------------------------
\* C21: once a stop call has returned, the client has closed the child's
\* three streams: command input, primary output and diagnostic output.
C21_Claim ==
  (pc = "idle" /\ Len(api) >= 1 /\ LastApi.op = "stop" /\ LastApi.err = Returned)
    => closed = {"stdin", "stdout", "stderr"}

\* ---- C22 --------------------------------------------------------
\* C22: a request call whose message could not be written, because the
\* command stream is closed (the child has exited), ends with the client's
\* own transport error and with nothing else.
C22_Claim ==
  \A k \in DOMAIN calls :
    WrittenFor(calls[k].id) = {} => calls[k].err = TransportUnavailable

\* ---- C23 --------------------------------------------------------
\* The most recent m of the first n lines, in arrival order.
LatestLines(m, n) == [i \in 1 .. m |-> n - m + i]

\* C23: whatever number of lines the drain thread has appended, the buffer
\* holds no more than 200 lines, and holds exactly the most recent
\* min(200, total) of them in arrival order.
C23_BufferHoldsLatest ==
  /\ Len(stderr_lines) <= Capacity
  /\ stderr_lines = LatestLines(Min(Capacity, appended), appended)

\* Three lines beyond the capacity have been appended: the first three are
\* gone.
C23_Witness ==
  /\ appended = Capacity + 3
  /\ Len(stderr_lines) = Capacity
  /\ Head(stderr_lines) = 4
  /\ stderr_lines[Capacity] = Capacity + 3

\* ---- C24 --------------------------------------------------------
\* C24: the drain thread's append and stderr_tail's read of the buffer never
\* overlap; the buffer changes only in the drain thread's append, under the
\* lock; and what stderr_tail returns is the buffer as it stood at one
\* instant, a contiguous run of the lines appended so far that ends at the
\* latest one.
C24_SnapshotExclusive ==
  /\ [](/\ ~(drain_pc \in {"append", "release"}
              /\ tail_pc \in {"join", "joining", "release"})
        /\ tail_pc # TailMutated
        /\ tail_pc = "release" =>
             /\ tail_result = stderr_lines
             /\ \E m \in 0 .. Capacity :
                  tail_result = LatestLines(m, appended))
  /\ [][stderr_lines' # stderr_lines =>
          /\ drain_pc = "append"
          /\ lock = "drain"
          /\ UNCHANGED <<tail_iter, tail_result>>]_vars

\* stderr_tail is about to return a full buffer whose oldest lines have been
\* evicted.
C24_Witness ==
  /\ tail_pc = "release"
  /\ appended > Capacity
  /\ Len(tail_result) = Capacity
  /\ tail_result[Capacity] = appended

\* ---- C25 --------------------------------------------------------
\* C25: the drain thread does not hold the lock while it waits in readline;
\* a stderr_tail call that wants the lock gets it and comes to its return,
\* and the drain thread that wants the lock gets it.
C25_NoMutualBlocking ==
  /\ [](drain_pc = "readline" => lock # "drain")
  /\ (tail_pc = "acquire") ~> (tail_pc = "release")
  /\ (drain_pc = "acquire") ~> (drain_pc = "append")

\* The drain thread is blocked in readline on a silent stream while
\* stderr_tail holds the lock and has its value.
C25_Witness ==
  /\ drain_pc = "readline"
  /\ err_read = err_written
  /\ ~err_closed
  /\ appended > 0
  /\ lock = "caller"
  /\ tail_pc = "release"
  /\ tail_result = stderr_lines

\* ---- C26 --------------------------------------------------------
\* C26: the drain thread ends only at end-of-stream, by returning; by then
\* it has appended every line it read, which is every line written, the
\* unfinished last one included; after that it appends nothing.
C26_DrainEndsCleanly ==
  /\ [](drain_pc = "done" =>
          /\ err_closed
          /\ err_read = err_written
          /\ appended = err_read
          /\ lock # "drain")
  /\ [][drain_pc = "done" =>
          /\ drain_pc' = "done"
          /\ stderr_lines' = stderr_lines
          /\ appended' = appended]_vars

\* The stream ended in a line without newline; the drain thread appended
\* both lines and returned.
C26_Witness ==
  /\ drain_pc = "done"
  /\ err_frag
  /\ err_written = 2
  /\ stderr_lines = <<1, 2>>

\* ---- C27 --------------------------------------------------------
\* The characters of a text ("a" and "b" are one character long).
Chars(t) == IF t = "" THEN <<>> ELSE <<t>>

\* "\n".join(pieces), as a sequence of characters
RECURSIVE JoinNewline(_)
JoinNewline(pieces) ==
  IF pieces = <<>> THEN <<>>
  ELSE IF Len(pieces) = 1 THEN Chars(pieces[1])
  ELSE Chars(Head(pieces)) \o <<"\n">> \o JoinNewline(Tail(pieces))

IsTextPart(part) == part.type = "text"
TextOf(part) == part.text
NonEmpty(t) == t # ""

\* The text fields of all parts of type text, in order.
RECURSIVE AllTexts(_)
AllTexts(content) ==
  IF content = <<>> THEN <<>>
  ELSE (IF IsTextPart(Head(content)) THEN <<TextOf(Head(content))>> ELSE <<>>)
         \o AllTexts(Tail(content))

\* C27 (as stated): text_from_content gives the text fields of all parts of
\* type text, in order, joined by newlines, leaving out the non-text parts
\* only; the empty sequence gives the empty string.
C27_Original ==
  \A k \in DOMAIN api :
    api[k].err = ToolReturnedError =>
      JoinNewline(api[k].text) = JoinNewline(AllTexts(api[k].result.content))

\* C27 (amended): text_from_content gives the non-empty text fields of the
\* parts of type text, in order, joined by newlines: it leaves out the
\* non-text parts and the text parts whose text is empty; the empty sequence
\* gives the empty string.
C27_Amended ==
  \A k \in DOMAIN api :
    api[k].err = ToolReturnedError =>
      /\ JoinNewline(api[k].text) =
           JoinNewline(SelectSeq(AllTexts(api[k].result.content), NonEmpty))
      /\ api[k].result.content = <<>> => JoinNewline(api[k].text) = <<>>

\* A tool error whose content is an empty text followed by "a": the text is
\* "a", without a leading newline.
C27_Witness ==
  /\ Len(api) >= 1
  /\ LastApi.err = ToolReturnedError
  /\ LastApi.result.content = <<TextPart(""), TextPart("a")>>
  /\ JoinNewline(LastApi.text) = <<"a">>


\* C28: parse_png_size_from_image_content looks at the first part of type
\* image only and decides in this order: no image part, NoImageContent; absent
\* or empty data, MissingPayload; decoded bytes that do not start with the
\* 8-byte signature, InvalidImageFormat; otherwise it returns the big-endian
\* width and height of bytes 16..23.  As stated: every payload that starts with
\* the signature yields a size.
FirstImage(content) ==
  CHOOSE i \in DOMAIN content :
    /\ content[i].type = "image"
    /\ \A j \in 1 .. i - 1 : content[j].type # "image"
HasImage(content) == \E i \in DOMAIN content : content[i].type = "image"
BigEndian(raw, at) ==
  raw[at + 1] * 16777216 + raw[at + 2] * 65536 + raw[at + 3] * 256 + raw[at + 4]
PngDecision(p, invalid) ==
  IF ~HasImage(p.input) THEN p.err = NoImageContent
  ELSE LET data == p.input[FirstImage(p.input)].data IN
    IF data.kind \in {"absent", "empty"} THEN p.err = MissingPayload
    ELSE IF invalid THEN p.err = InvalidImageFormat
    ELSE /\ p.err = Returned
         /\ p.value = <<BigEndian(data.raw, 16), BigEndian(data.raw, 20)>>
StartsWithSignature(raw) ==
  Len(raw) >= 8 /\ \A i \in 1 .. 8 : raw[i] = PNG_SIGNATURE[i]
C28_Original ==
  \A k \in DOMAIN parsed :
    parsed[k].fn = "png" =>
      PngDecision(parsed[k],
        ~StartsWithSignature(
           parsed[k].input[FirstImage(parsed[k].input)].data.raw))

\* C28 (amended): the same order of decisions, where the decoded bytes are
\* rejected with InvalidImageFormat when they are fewer than 24 or do not start
\* with the signature; only a payload of at least 24 bytes yields a size.
C28_Amended ==
  \A k \in DOMAIN parsed :
    parsed[k].fn = "png" =>
      PngDecision(parsed[k],
        LET raw == parsed[k].input[FirstImage(parsed[k].input)].data.raw IN
          Len(raw) < 24 \/ ~StartsWithSignature(raw))

Png640x360 ==
  PNG_SIGNATURE \o ChunkHead \o <<0, 0, 2, 128, 0, 0, 1, 104>> \o ChunkRest

\* C28 (witness): a 640 x 360 screenshot was measured, and then a content whose
\* first image is not a PNG was rejected although its second image is that
\* screenshot.
C28_Witness ==
  /\ Len(parsed) = 2
  /\ parsed[1].fn = "png" /\ parsed[2].fn = "png"
  /\ parsed[1].input = <<PngPart("text", AbsentData),
                         PngPart("image", B64Encode(Png640x360))>>
  /\ parsed[1].err = Returned
  /\ parsed[1].value = <<640, 360>>
  /\ parsed[2].input = <<PngPart("image", B64Encode(Prefix(NotPng \o ChunkHead, 8))),
                         PngPart("image", B64Encode(Png640x360))>>
  /\ parsed[2].err = InvalidImageFormat

\* C29: parse_json_text returns the parsed value for every text that is valid
\* JSON, and for every other text fails with MalformedPayload, the message
\* holding the first 160 characters of the text and none beyond.
JsonDecision(p, accepted) ==
  IF p.input.kind \in accepted
    THEN p.err = Returned /\ p.value = [parsed_from |-> p.input.chars]
    ELSE /\ p.err = MalformedPayload
         /\ Len(p.shown) = IF Len(p.input.chars) < 160
                              THEN Len(p.input.chars) ELSE 160
         /\ \A i \in DOMAIN p.shown : p.shown[i] = p.input.chars[i]
C29_Original ==
  \A k \in DOMAIN parsed :
    parsed[k].fn = "json" => JsonDecision(parsed[k], {"json"})

\* C29 (amended): parse_json_text returns the parsed value for every text that
\* json.loads accepts, which is every valid JSON text and also the texts that
\* use NaN, Infinity or -Infinity as a value; every other text fails with
\* MalformedPayload, the message holding the first 160 characters of the text
\* and none beyond.
C29_Amended ==
  \A k \in DOMAIN parsed :
    parsed[k].fn = "json" => JsonDecision(parsed[k], {"json", "constant"})

\* C29 (witness): a text of 161 characters was rejected with its first 160
\* quoted, and a text that uses NaN was parsed.
C29_Witness ==
  /\ Len(parsed) = 2
  /\ parsed[1].fn = "json" /\ parsed[2].fn = "json"
  /\ parsed[1].input = Text("invalid", 161)
  /\ parsed[1].err = MalformedPayload
  /\ Len(parsed[1].shown) = 160
  /\ parsed[2].input = Text("constant", 3)
  /\ parsed[2].err = Returned

\* C30: a call does not time out when the line carrying its matching response
\* was completely written before the call's deadline, also when that line came
\* in the same chunk as a line before it and so lies, whole, in the client's
\* read buffer (anywhere in it, behind a notification or a noise line) while
\* select on the file descriptor reports nothing.
ResponseBuffered ==
  \E i \in DOMAIN rbuf : IsResponse(rbuf[i]) /\ rbuf[i].id = request_id
C30_Claim ==
  [][(pc # "idle" /\ Resolves /\ LastCall'.err \in TimedOutErrs)
       => ~(/\ ResponseBuffered
            /\ last_read.at >= started
            /\ last_read.at < started + limit)]_vars

\* C31: verbose only adds logging.  Whenever a call ends on a line it has read
\* (by returning it, or by an exception raised while handling it), a client
\* with the other value of verbose, in the same state and reading the same
\* line, ends the call the same way.
EndOnLine(v, l, rid) ==
  IF v /\ l.shape = "scalar" THEN TypeErr
  ELSE IF l.shape # "dict" THEN AttrError
  ELSE IF l.id = rid THEN Returned
  ELSE "goes on"
C31_Claim ==
  [][(Resolves /\ LastCallNext.err \in {Returned, TypeErr, AttrError})
       => /\ LastCallNext.err = EndOnLine(verbose, line', request_id)
          /\ LastCallNext.err = EndOnLine(~verbose, line', request_id)]_vars

\* C32: in both main functions client.stop is called exactly once on every
\* path, after every call of the try body; the editor stop request is sent
\* just before it exactly when project_running is set (and, in smoke main,
\* keep_running is not), and when that request raises client.stop is still
\* called.
Count(history, kind) == Cardinality({i \in DOMAIN history : history[i] = kind})
EditorStops == {"editor stop", "editor stop raised"}
StopExpected == project_running /\ (harness = "phone" \/ ~args.keep_running)
C32_StopOnEveryPath ==
  /\ [](main_pc \in {"summary", "done"} =>
          /\ Count(ops, "client.stop") = 1
          /\ ops[Len(ops)] = "client.stop"
          /\ Cardinality({i \in DOMAIN ops : ops[i] \in EditorStops})
               = (IF StopExpected THEN 1 ELSE 0)
          /\ StopExpected => ops[Len(ops) - 1] \in EditorStops)
  /\ [](main_pc \in {"body", "except", "finally", "editor_stop", "client_stop"}
          => Count(ops, "client.stop") = 0)
  /\ [][(main_pc \in {"body", "except", "finally"} /\ main_pc' # main_pc)
          => main_pc' \in {"except", "finally", "editor_stop", "client_stop"}]_vars
  /\ [][main_pc = "editor_stop" => main_pc' = "client_stop"]_vars
  /\ [][main_pc = "client_stop" => main_pc' = "summary"]_vars

\* C32 (witness): smoke main was aborted by an exception after the scene was
\* started, the editor stop request raised too, and client.stop was called.
C32_Witness ==
  /\ harness = "smoke"
  /\ main_pc = "done"
  /\ exc # NoExc
  /\ ops = <<"scenario", "editor stop raised", "client.stop">>

\* C33: a run that an exception aborts ends with exactly one failed check, the
\* last one recorded: the check that failed just before the exception, or else
\* the generic runtime failure.  main returns 0 exactly when no recorded check
\* failed, so an aborted run returns 1.
Aborted == exc # NoExc
FailedChecks == {i \in DOMAIN results : ~results[i].passed}
GenericNames == {"smoke_runtime", "playability_runtime"}
C33_OneFailedCheck ==
  /\ []((Aborted /\ main_pc \in {"finally", "editor_stop", "client_stop",
                                  "summary", "done"})
          => FailedChecks = {Len(results)})
  /\ [][main_pc = "except" =>
          IF results # <<>> /\ ~results[Len(results)].passed
            THEN results' = results
            ELSE /\ Len(results') = Len(results) + 1
                 /\ results'[Len(results')].name \in GenericNames
                 /\ ~results'[Len(results')].passed]_vars
  /\ [](main_pc = "done"
          => /\ exit_code = 0 <=> FailedChecks = {}
             /\ exit_code = 1 <=> FailedChecks # {}
             /\ Aborted => exit_code = 1)

\* C33 (witness): phone main returned 1 after passed checks and an exception
\* that no check had announced.
C33_Witness ==
  /\ harness = "phone"
  /\ main_pc = "done"
  /\ exit_code = 1
  /\ Len(results) >= 3
  /\ results[Len(results)].name = "playability_runtime"
  /\ exc.type = "Exception"

\* C34: the screenshot warm-up of smoke main makes at most 3 calls, leaves the
\* loop at the first call that returns, tries again only after an MCPError
\* whose message contains "Screenshot request timed out", and lets every other
\* failure leave the loop and the try body at once.
AtSmoke(kind) ==
  harness = "smoke" /\ main_pc = "body" /\ ip <= Len(SmokeBody)
    /\ SmokeBody[ip].k = kind
PastSmoke(kind) ==
  harness = "smoke" /\ main_pc = "body" /\ ip > 1 /\ SmokeBody[ip - 1].k = kind
InWarmUp == AtSmoke("warmup")
WarmUpCalls == InWarmUp /\ next_id' # next_id
StaysInWarmUp == main_pc' = "body" /\ ip' = ip
C34_WarmUp ==
  /\ [][WarmUpCalls => attempt < 3 /\ next_id' = next_id + 1]_vars
  /\ [][(WarmUpCalls /\ StaysInWarmUp)
          => /\ attempt' = attempt + 1
             /\ last_error'.type = "MCPError"
             /\ last_error'.text = "Error: Screenshot request timed out"
             /\ shot' = shot]_vars
  /\ [][(WarmUpCalls /\ main_pc' = "except" /\ results' = results)
          => ~(exc'.type = "MCPError"
               /\ exc'.text = "Error: Screenshot request timed out")]_vars
  /\ [][(WarmUpCalls /\ shot' # shot) => ~StaysInWarmUp]_vars
  /\ [](InWarmUp => attempt <= 3)

\* C34 (witness): the first two calls failed with the server's screenshot
\* timeout and the third returned an image; the try body goes on.
C34_Witness ==
  /\ PastSmoke("warmup")
  /\ next_id = 9 + MaxPolls
  /\ shot = "image"
  /\ last_error = MCPErr(ToolReturnedError, "Error: Screenshot request timed out")

\* C38: phase 4 of smoke main ends for every duration: with
\* W = int(max(30, phase4_sim_seconds) * 1000) it runs ceil(W / 22000) rounds,
\* each of more than 0 and at most 22000 ms, which add up to W, and a round in
\* which runtime errors are found is the last one.
RECURSIVE SumOf(_)
SumOf(q) == IF q = <<>> THEN 0 ELSE Head(q) + SumOf(Tail(q))
InPhase4 == AtSmoke("phase4") /\ attempt = 1
WaitMs ==
  LET x == args.phase4_sim_seconds
      s == IF x.num > 30 * x.den THEN x.num ELSE 30 * x.den
  IN (s * 1000) \div x.den
C38_Phase4Terminates ==
  /\ [](InPhase4 =>
          /\ \A i \in DOMAIN segments : segments[i] > 0 /\ segments[i] <= 22000
          /\ SumOf(segments) + remaining_ms = WaitMs
          /\ remaining_ms >= 0
          /\ Len(segments) = segment_count
          /\ segment_count <= (WaitMs + 21999) \div 22000)
  /\ [][(InPhase4 /\ ip' = ip + 1)
          => /\ SumOf(segments) = WaitMs
             /\ segment_count = (WaitMs + 21999) \div 22000]_vars
  /\ [][(InPhase4 /\ Len(results') > Len(results)) => main_pc' = "except"]_vars
  /\ [][(InPhase4 /\ InPhase4') => remaining_ms' < remaining_ms]_vars

\* C38 (witness): with 45 seconds configured the loop has run its three rounds
\* of 22000, 22000 and 1000 ms and the try body goes on.
C38_Witness ==
  /\ PastSmoke("phase4")
  /\ args.phase4_sim_seconds = Seconds(45, 1)
  /\ segments = <<22000, 22000, 1000>>

\* C35: a retry helper asked for n attempts makes at most n, each a request
\* with the next, larger id; it returns at the first attempt that succeeds and
\* makes no further one; it fails only after n failed attempts, with the last
\* failure; and it ends.
HelperRuns == harness = "helper" /\ main_pc = "body" /\ ip = 1
HelperReturned == harness = "helper" /\ main_pc = "body" /\ ip = 2
HelperRaised == harness = "helper" /\ main_pc = "except"
DifficultyReturned == harness = "balance" /\ main_pc = "done"

\* What C36 says of every return but the log file: a result was built, an
\* exception gave ok = false, a client that was created was stopped, the
\* editor process is not running, and the editor is stopped after the client.
C36_ResultAndProcesses ==
  /\ [](DifficultyReturned =>
         /\ outcome.reason # "none"
         /\ exc # NoExc => ~outcome.ok
         /\ client # "live"
         /\ editor_proc # "running")
  /\ [][main_pc = "stop_editor" /\ main_pc' = "done" => client # "live"]_vars
  /\ [][client' = "stop raised" /\ client # client' =>
         main_pc' = "stop_editor"]_vars

\* C36: when run_difficulty has returned, on every path (an exception while
\* starting the editor or constructing the client included), a result was
\* built, an exception gave ok = false, the client if it was created is
\* stopped, the editor process is stopped and its log file is closed.
C36_Claim ==
  DifficultyReturned =>
    /\ outcome.reason # "none"
    /\ exc # NoExc => ~outcome.ok
    /\ client # "live"
    /\ editor_proc # "running"
    /\ log_file # "open"

\* the path of C36 that leaves the log file open: Popen raised in
\* _start_editor, the result says so, and nothing closed the file
C36_LogFileLeftOpen ==
  /\ DifficultyReturned
  /\ exc \in StartFailures
  /\ ~outcome.ok
  /\ editor_proc = "none"
  /\ log_file = "open"

\* ---- C37 ---------------------------------------------------------
\* The (age, villagers, military, buildings) tuple of a snapshot, a key that
\* is missing counting as age 1 or as 0 and a number as its whole part.
Whole(x, default) == IF x = Missing THEN default ELSE x.num \div x.den
Tuple(snap) ==
  <<Whole(snap.balance_ai_age, 1), Whole(snap.balance_ai_villagers, 0),
    Whole(snap.balance_ai_military, 0), Whole(snap.balance_ai_buildings, 0)>>

\* the pairs of consecutive snapshots with equal tuples and an age below 3
StalledPairs ==
  {k \in 1 .. Len(stall_snapshots) - 1 :
     /\ Tuple(stall_snapshots[k]) = Tuple(stall_snapshots[k + 1])
     /\ Tuple(stall_snapshots[k])[1] < 3}

\* C37: _estimate_stall_seconds returns sample_seconds times the number of
\* consecutive snapshot pairs whose (age, villagers, military, buildings)
\* tuples are equal and whose age is below 3; with fewer than two snapshots
\* it returns 0; a pair that differs in one of the four fields, or whose age
\* is 3 or more, adds nothing.
C37_StallSeconds ==
  stall # NotRun =>
    /\ stall[1] = sample_seconds * Cardinality(StalledPairs)
    /\ Len(stall_snapshots) < 2 => stall[1] = 0
    /\ (\A k \in 1 .. Len(stall_snapshots) - 1 :
          \/ Tuple(stall_snapshots[k]) # Tuple(stall_snapshots[k + 1])
          \/ Tuple(stall_snapshots[k])[1] >= 3) => stall[1] = 0

\* C37 (witness): three snapshots; the first two are equal at age 2 (2 and
\* 2.5, villagers missing and 0), the third has one more building; 5 seconds
\* of stall are returned.
C37_Witness ==
  /\ stall = <<5>>
  /\ sample_seconds = 5
  /\ Len(stall_snapshots) = 3
  /\ stall_snapshots[1] =
       [balance_ai_age |-> Num(2, 1), balance_ai_villagers |-> Missing,
        balance_ai_military |-> Num(1, 1), balance_ai_buildings |-> Num(0, 1)]
  /\ stall_snapshots[2] =
       [balance_ai_age |-> Num(5, 2), balance_ai_villagers |-> Num(0, 1),
        balance_ai_military |-> Num(1, 1), balance_ai_buildings |-> Num(0, 1)]
  /\ stall_snapshots[3] =
       [balance_ai_age |-> Num(5, 2), balance_ai_villagers |-> Num(0, 1),
        balance_ai_military |-> Num(1, 1), balance_ai_buildings |-> Num(1, 1)]

====
